---- MODULE Spec2Model ----
(***************************************************************************)
(* A model of the APK patch size estimator:                                *)
(*   - zip.py: little-endian helpers and the central-directory reader;     *)
(*   - delta.py: detection of common embedded archives and the partition   *)
(*     of an archive into file blocks (file-by-file v2 without reorder);   *)
(*   - delta.py and utils.py: compute_delta and the registered strategies  *)
(*     on a file system of paths and contents; bsdiff byte by byte;        *)
(*   - apk_patch_size_estimator.py: the delta/compression matrix of main.  *)
(* The code is Python 2 (print statements, list-returning filter/map).     *)
(***************************************************************************)
EXTENDS Integers, Sequences, FiniteSets, TLC

VARIABLES
    \* zip.py, little_endian / little_endian_rev
    le_x, le_s, le_num, le_pc,
    \* zip.py, class Zip
    buffer, zin, zpc, start, central_dir_offset, pos, entries, positions,
    \* delta.py, filebyfilev2_noreorder
    old_zip, new_zip, ppc, common_archives, old_file_blocks, new_file_blocks,
    \* apk_patch_size_estimator.py, main: the arguments, the file system, the
    \* position in main and its locals, what has been printed
    args, fs, mpc, diff_i, comp_j, delta_path, compressed_path, row, printed,
    \* history: the file system at the start, the content of the delta
    \* artifact when its strategy returned it, the number of computations of
    \* each strategy, the commands run so far, where the run failed
    fs0, delta_content, delta_count, cmdlog, failed_at,
    \* bsdiff, byte by byte: the content of patch.bsdiff, of
    \* patch.raw_bsdiff_header, of patch.raw_bsdiff.bz2, of patch.raw_bsdiff
    \* and of patch.raw_bsdiff.rebuilt, and the position in bsdiff
    bsdiff_patch, bsdiff_header, bzipped_bsdiff_patch, raw_bsdiff,
    rebuilt_bsdiff, bspc,
    \* delta.py, DeltaAlgorithm.compute_delta: the files and directories of
    \* the file system, the algorithm called, the position in it, the locals
    \* of the strategies (loop index, patch_paths, the files os.walk has yet
    \* to yield), the path returned
    files, dirs, algo, dpc, gen_i, patch_paths, to_walk, returned_path,
    \* history: the files at the start, the paths written so far, whether
    \* an external command has exited non-zero
    files0, written, tool_failed

le_vars == <<le_x, le_s, le_num, le_pc>>
zip_vars == <<buffer, zin, zpc, start, central_dir_offset, pos, entries,
              positions>>
part_vars == <<old_zip, new_zip, ppc, common_archives, old_file_blocks,
               new_file_blocks>>
main_vars == <<args, fs, mpc, diff_i, comp_j, delta_path, compressed_path, row,
               printed, fs0, delta_content, delta_count, cmdlog, failed_at>>
bs_vars == <<bsdiff_patch, bsdiff_header, bzipped_bsdiff_patch, raw_bsdiff,
             rebuilt_bsdiff, bspc>>
delta_vars == <<files, dirs, algo, dpc, gen_i, patch_paths, to_walk,
                returned_path, files0, written, tool_failed>>

----------------------------------------------------------------------------
(* Bounds of the model. *)

\* little_endian is applied to every integer of 0..MaxLE (and to LEExtra).
MaxLE == 300
\* Largest number of central-file-header records of a generated buffer.
MaxRecords == 2
\* Largest number of entries of an archive given to the no-reorder strategy.
MaxEntries == 3
\* Largest number of entries of an archive given to the detector alone.
MaxDetect == 2
\* Largest number of compressed streams in the body of a binary diff.
MaxStreams == 3

----------------------------------------------------------------------------
(* zip.py: constants and little-endian helpers. *)

END_OF_CENTRAL_DIRECTORY_SIG == 101010256   \* 0x06054b50
CENTRAL_FILE_HEADER == 33639248             \* 0x02014b50

\* def little_endian(x): the bytes of x, least significant first, none for 0.
RECURSIVE little_endian(_)
little_endian(x) ==
    IF x = 0 THEN <<>>
    ELSE <<x % 256>> \o little_endian(x \div 256)

\* The loop of little_endian_rev: num <<= 8; num += ord(s[-1]); s = s[:-1].
RECURSIVE le_rev_loop(_, _)
le_rev_loop(s, num) ==
    IF Len(s) = 0 THEN num
    ELSE le_rev_loop(SubSeq(s, 1, Len(s) - 1), num * 256 + s[Len(s)])

\* A decoder that reads the first byte first (big-endian).
le_rev_big_endian(s) ==
    LET RECURSIVE go(_, _)
        go(t, num) == IF Len(t) = 0 THEN num
                      ELSE go(Tail(t), num * 256 + Head(t))
    IN go(s, 0)

\* def little_endian_rev(s)
little_endian_rev(s) == le_rev_loop(s, 0)

\* Python's s[lo:hi] on a byte buffer: negative indices count from the end,
\* both indices are clamped to 0..len(s), an empty range gives "".
PyIndex(n, i) ==
    IF i < 0 THEN (IF i + n < 0 THEN 0 ELSE i + n)
    ELSE (IF i > n THEN n ELSE i)

PySlice(s, lo, hi) ==
    LET l == PyIndex(Len(s), lo)
        h == PyIndex(Len(s), hi)
    IN IF h <= l THEN <<>> ELSE SubSeq(s, l + 1, h)

\* Zip.read_int(pos, size)
read_int(buf, p, size) == little_endian_rev(PySlice(buf, p, p + size))

----------------------------------------------------------------------------
(* The little-endian round trip as a state machine: encode, then decode. *)

\* Values beyond 0..MaxLE: byte boundaries, the two signatures, 2^31 - 1 (the
\* largest integer of the model checker; 4-byte values above it are not covered).
LEExtra == {65535, 65536, 16777215, 16777216, 2147483647,
            END_OF_CENTRAL_DIRECTORY_SIG, CENTRAL_FILE_HEADER}

LEInit ==
    /\ le_x \in (0..MaxLE) \cup LEExtra
    /\ le_s = <<>>
    /\ le_num = 0
    /\ le_pc = "encode"

LEIdle ==
    /\ le_x = 0
    /\ le_s = <<>>
    /\ le_num = 0
    /\ le_pc = "idle"

Encode ==
    /\ le_pc = "encode"
    /\ le_s' = little_endian(le_x)
    /\ le_pc' = "decode"
    /\ UNCHANGED <<le_x, le_num>>

Decode ==
    /\ le_pc = "decode"
    /\ le_num' = little_endian_rev(le_s)
    /\ le_pc' = "done"
    /\ UNCHANGED <<le_x, le_s>>

----------------------------------------------------------------------------
(* Generated input buffers for the reader. *)

Filler(n, b) == [i \in 1..n |-> b]

\* x in exactly w bytes, least significant first (how a ZIP writer stores it).
RECURSIVE LEFixed(_, _)
LEFixed(x, w) ==
    IF w = 0 THEN <<>>
    ELSE <<x % 256>> \o LEFixed(x \div 256, w - 1)

\* The first n bytes of the repeated central-file-header signature: field
\* content that a reader must skip, never parse.
SigLike(n) == [i \in 1..n |-> LEFixed(CENTRAL_FILE_HEADER, 4)[((i - 1) % 4) + 1]]

\* Records a buffer is built from: filename bytes, extra-field and comment
\* lengths, relative offset of the local header.
RecordSpecs ==
    { [name |-> <<97>>, extra |-> 0, comment |-> 0, offset |-> 0],
      [name |-> <<108, 47, 120>>, extra |-> 4, comment |-> 0, offset |-> 30],
      [name |-> <<98, 46, 97, 112, 107>>, extra |-> 0, comment |-> 5,
       offset |-> 66000],
      [name |-> <<99, 100>>, extra |-> 2, comment |-> 4,
       offset |-> 2147483647] }

RECURSIVE SeqsUpTo(_, _)
SeqsUpTo(S, n) ==
    IF n = 0 THEN {<<>>}
    ELSE LET shorter == SeqsUpTo(S, n - 1)
         IN shorter \cup {Append(s, x) : s \in shorter, x \in S}

\* One central file header: signature, 24 bytes, the three lengths at +28,
\* +30, +32, 8 bytes, the offset at +42, then filename, extra field, comment.
\* The header declares the lengths dn, de, dc.
MkHeaderDeclaring(r, dn, de, dc) ==
    LEFixed(CENTRAL_FILE_HEADER, 4) \o Filler(24, 0)
      \o LEFixed(dn, 2) \o LEFixed(de, 2)
      \o LEFixed(dc, 2) \o Filler(8, 0) \o LEFixed(r.offset, 4)
      \o r.name \o SigLike(r.extra) \o SigLike(r.comment)

MkHeader(r) == MkHeaderDeclaring(r, Len(r.name), r.extra, r.comment)

\* A header whose declared filename, extra-field or comment length is 200
\* more than the bytes that follow it in the buffer.
OverrunKinds == {"none", "name", "extra", "comment"}
MkOverrunHeader(r, kind) ==
    CASE kind = "none" -> MkHeader(r)
      [] kind = "name" ->
           MkHeaderDeclaring(r, Len(r.name) + 200, r.extra, r.comment)
      [] kind = "extra" ->
           MkHeaderDeclaring(r, Len(r.name), r.extra + 200, r.comment)
      [] kind = "comment" ->
           MkHeaderDeclaring(r, Len(r.name), r.extra, r.comment + 200)

\* The directory; the lengths of its last record overrun as `kind` says.
RECURSIVE MkDirectory(_, _)
MkDirectory(recs, kind) ==
    IF recs = <<>> THEN <<>>
    ELSE IF Len(recs) = 1 THEN MkOverrunHeader(Head(recs), kind)
    ELSE MkHeader(Head(recs)) \o MkDirectory(Tail(recs), kind)

\* The bytes before the central directory: local file data. "stub" is 15
\* bytes followed by the 4 bytes 19,0,0,0 (bytes that read as the length of
\* the stub itself).
PrefixKinds == {"none", "data", "stub"}
MkPrefix(kind) ==
    CASE kind = "none" -> <<>>
      [] kind = "data" -> Filler(5, 7)
      [] kind = "stub" -> Filler(15, 7) \o LEFixed(19, 4)

\* The bytes after the central directory.
\*   eocd:          the End-Of-Central-Directory record, no archive comment;
\*   eocd_comment:  the same with a 3-byte archive comment;
\*   eocd_sigcomment: the same with a 6-byte comment that starts with the
\*                  EOCD signature bytes;
\*   truncated:     nothing (the record is cut off);
\*   corrupt:       22 bytes whose first 4 are not the signature.
TailKinds == {"eocd", "eocd_comment", "eocd_sigcomment", "truncated", "corrupt"}
MkEocd(n, cdsize, cdoffset, comment) ==
    LEFixed(END_OF_CENTRAL_DIRECTORY_SIG, 4) \o Filler(4, 0)
      \o LEFixed(n, 2) \o LEFixed(n, 2) \o LEFixed(cdsize, 4)
      \o LEFixed(cdoffset, 4) \o LEFixed(Len(comment), 2) \o comment

MkTail(kind, n, cdsize, cdoffset) ==
    CASE kind = "eocd" -> MkEocd(n, cdsize, cdoffset, <<>>)
      [] kind = "eocd_comment" -> MkEocd(n, cdsize, cdoffset, Filler(3, 33))
      [] kind = "eocd_sigcomment" ->
           MkEocd(n, cdsize, cdoffset,
                  LEFixed(END_OF_CENTRAL_DIRECTORY_SIG, 4) \o Filler(2, 33))
      [] kind = "truncated" -> <<>>
      [] kind = "corrupt" -> <<80, 75, 5, 7>> \o Filler(18, 0)

MkBuffer(z) ==
    LET prefix == MkPrefix(z.prefix)
        dir == MkDirectory(z.recs, z.overrun)
    IN prefix \o dir \o MkTail(z.tail, Len(z.recs), Len(dir), Len(prefix))

ZipInputs ==
    [prefix : PrefixKinds, recs : SeqsUpTo(RecordSpecs, MaxRecords),
     tail : TailKinds, overrun : OverrunKinds]

----------------------------------------------------------------------------
(* zip.py: class Zip. *)

\* The loop condition of get_central_dir_offset (lines 73-74).
scanning(buf, st) ==
    /\ PySlice(buf, st, st + 4) # little_endian(END_OF_CENTRAL_DIRECTORY_SIG)
    /\ st >= 0

ZipInit ==
    /\ zin \in ZipInputs
    /\ buffer = MkBuffer(zin)
    /\ zpc = "get_entries"
    /\ start = 0
    /\ central_dir_offset = -1
    /\ pos = -1
    /\ entries = <<>>
    /\ positions = <<>>

ZipIdle ==
    /\ zin = [prefix |-> "none", recs |-> <<>>, tail |-> "truncated",
              overrun |-> "none"]
    /\ buffer = <<>>
    /\ zpc = "idle"
    /\ start = 0
    /\ central_dir_offset = -1
    /\ pos = -1
    /\ entries = <<>>
    /\ positions = <<>>

\* get_entries, line 51, calls get_central_dir_offset, line 72:
\* start = len(self.buffer) - 4.
ScanStart ==
    /\ zpc = "get_entries"
    /\ start' = Len(buffer) - 4
    /\ zpc' = "scan"
    /\ UNCHANGED <<buffer, zin, central_dir_offset, pos, entries, positions>>

\* One iteration of the while loop of get_central_dir_offset (lines 73-75).
ScanBack ==
    /\ zpc = "scan"
    /\ scanning(buffer, start)
    /\ start' = start - 1
    /\ UNCHANGED <<buffer, zin, zpc, central_dir_offset, pos, entries,
                   positions>>

\* The loop of get_central_dir_offset has ended (lines 77-80): the offset is
\* read 16 bytes after start and returned to get_entries.
GetCentralDirOffset ==
    /\ zpc = "scan"
    /\ ~scanning(buffer, start)
    /\ central_dir_offset' =
          little_endian_rev(PySlice(buffer, start + 16, start + 20))
    /\ zpc' = "assert"
    /\ UNCHANGED <<buffer, zin, start, pos, entries, positions>>

\* get_entries, lines 52-55: the assertion on the first header, entries = [].
AssertFirstHeader ==
    /\ zpc = "assert"
    /\ IF read_int(buffer, central_dir_offset, 4) = CENTRAL_FILE_HEADER
       THEN /\ zpc' = "loop"
            /\ pos' = central_dir_offset
       ELSE /\ zpc' = "assertion_error"
            /\ UNCHANGED pos
    /\ UNCHANGED <<buffer, zin, start, central_dir_offset, entries, positions>>

\* The position after one record that starts at p (lines 57-68).
next_pos_no_extra(buf, p) ==
    p + 46 + read_int(buf, p + 28, 2) + read_int(buf, p + 32, 2)

next_pos(buf, p) ==
    p + 46 + read_int(buf, p + 28, 2) + read_int(buf, p + 30, 2)
      + read_int(buf, p + 32, 2)

\* The entry of the record that starts at p (lines 58, 64, 66, 67).
entry_at(buf, p) ==
    [filename |-> PySlice(buf, p + 46, p + 46 + read_int(buf, p + 28, 2)),
     offset |-> read_int(buf, p + 42, 4)]

\* One iteration of the while loop of get_entries (lines 56-68).
ReadEntry ==
    /\ zpc = "loop"
    /\ read_int(buffer, pos, 4) = CENTRAL_FILE_HEADER
    /\ entries' = Append(entries, entry_at(buffer, pos))
    /\ positions' = Append(positions, pos)
    /\ pos' = next_pos(buffer, pos)
    /\ UNCHANGED <<buffer, zin, zpc, start, central_dir_offset>>

\* The loop condition fails: return entries (line 69).
ReturnEntries ==
    /\ zpc = "loop"
    /\ read_int(buffer, pos, 4) # CENTRAL_FILE_HEADER
    /\ zpc' = "returned"
    /\ UNCHANGED <<buffer, zin, start, central_dir_offset, pos, entries,
                   positions>>


----------------------------------------------------------------------------
(* delta.py: common embedded archives and file blocks.  An archive is the  *)
(* sequence of the filenames zipfile's infolist() reports, in directory    *)
(* order; a filename is its sequence of characters.                        *)

Range(f) == {f[i] : i \in DOMAIN f}

NoDuplicates(s) == \A i, j \in DOMAIN s : s[i] = s[j] => i = j

\* def flatten(l) (lines 278-283)
RECURSIVE Flatten(_)
Flatten(blocks) ==
    IF blocks = <<>> THEN <<>>
    ELSE Head(blocks) \o Flatten(Tail(blocks))

NameA == <<"a">>
NameApk == <<"a", "p", "k">>
NameXApk == <<"x", ".", "a", "p", "k">>
NameLJar == <<"l", ".", "j", "a", "r">>
NameZZip == <<"r", "/", "z", ".", "z", "i", "p">>
NameApkTxt == <<"x", ".", "a", "p", "k", ".", "t">>

\* The filenames of the archives given to the no-reorder strategy, and those
\* given to the detector alone.
Names == {NameA, NameApk, NameXApk, NameLJar}
DetectNames == Names \cup {NameZZip, NameApkTxt}

\* str.endswith
EndsWith(s, suffix) ==
    /\ Len(s) >= Len(suffix)
    /\ SubSeq(s, Len(s) - Len(suffix) + 1, Len(s)) = suffix

extensions == << <<".", "a", "p", "k">>, <<".", "j", "a", "r">>,
                 <<".", "z", "i", "p">> >>

\* def is_archive(filename)
is_archive(filename) ==
    \E k \in 1..Len(extensions) : EndsWith(filename, extensions[k])

\* find_embedded_archives(zip_file): filter(is_archive, map(filename, infolist))
find_embedded_archives(zip_file) == SelectSeq(zip_file, is_archive)

\* def find_common_embedded_archives(old_file, new_file)
find_common_embedded_archives(old_file, new_file) ==
    LET old_embedded_archives == find_embedded_archives(old_file)
        new_embedded_archives == find_embedded_archives(new_file)
    IN SelectSeq(new_embedded_archives,
                 LAMBDA entry : entry \in Range(old_embedded_archives))

\* The for loop of get_file_blocks (lines 264-270).
RECURSIVE file_blocks_loop(_, _, _)
file_blocks_loop(zip_entries, common, file_blocks) ==
    IF zip_entries = <<>> THEN file_blocks
    ELSE IF Head(zip_entries) \in Range(common)
         THEN file_blocks_loop(Tail(zip_entries), common,
                               Append(file_blocks, <<>>))
         ELSE file_blocks_loop(Tail(zip_entries), common,
                  [file_blocks EXCEPT ![Len(file_blocks)] =
                      Append(@, Head(zip_entries))])

\* get_file_blocks without the filter of line 272.
get_file_blocks_unfiltered(zip_file, common) ==
    file_blocks_loop(zip_file, common, << <<>> >>)

\* get_file_blocks when a boundary entry opens the new block with itself.
get_file_blocks_with_boundaries(zip_file, common) ==
    LET RECURSIVE loop(_, _)
        loop(zip_entries, file_blocks) ==
            IF zip_entries = <<>> THEN file_blocks
            ELSE IF Head(zip_entries) \in Range(common)
                 THEN loop(Tail(zip_entries),
                           Append(file_blocks, <<Head(zip_entries)>>))
                 ELSE loop(Tail(zip_entries),
                           [file_blocks EXCEPT ![Len(file_blocks)] =
                               Append(@, Head(zip_entries))])
    IN SelectSeq(loop(zip_file, << <<>> >>), LAMBDA x : x # <<>>)

\* def get_file_blocks(zip_file), common_archives being the closure variable.
get_file_blocks(zip_file, common) ==
    SelectSeq(file_blocks_loop(zip_file, common, << <<>> >>),
              LAMBDA x : x # <<>>)

\* A check that lets every pair of partitions through.
blocks_unchecked(old_blocks, new_blocks) == TRUE

\* The condition asserted at line 315.
blocks_aligned(old_blocks, new_blocks) == Len(old_blocks) = Len(new_blocks)

PartInit ==
    /\ old_zip \in SeqsUpTo(Names, MaxEntries)
    /\ new_zip \in SeqsUpTo(Names, MaxEntries)
    /\ ppc = "start"
    /\ common_archives = <<>>
    /\ old_file_blocks = <<>>
    /\ new_file_blocks = <<>>

DetectInit ==
    /\ old_zip \in SeqsUpTo(DetectNames, MaxDetect)
    /\ new_zip \in SeqsUpTo(DetectNames, MaxDetect)
    /\ ppc = "detect"
    /\ common_archives = <<>>
    /\ old_file_blocks = <<>>
    /\ new_file_blocks = <<>>

PartIdle ==
    /\ old_zip = <<>>
    /\ new_zip = <<>>
    /\ ppc = "idle"
    /\ common_archives = <<>>
    /\ old_file_blocks = <<>>
    /\ new_file_blocks = <<>>

\* A call of find_common_embedded_archives on its own.
Detect ==
    /\ ppc = "detect"
    /\ common_archives' = find_common_embedded_archives(old_zip, new_zip)
    /\ ppc' = "detected"
    /\ UNCHANGED <<old_zip, new_zip, old_file_blocks, new_file_blocks>>

\* filebyfilev2_noreorder, line 253.
FindCommon ==
    /\ ppc = "start"
    /\ common_archives' = find_common_embedded_archives(old_zip, new_zip)
    /\ ppc' = "extract"
    /\ UNCHANGED <<old_zip, new_zip, old_file_blocks, new_file_blocks>>

\* Lines 300-306: mkdir -p of the two sub-archive directories, then unzip of
\* every common archive out of copies of the two files; run_command raises
\* when one of the commands exits non-zero.
ExtractCommon ==
    /\ ppc = "extract"
    /\ \E ok \in BOOLEAN : ppc' = IF ok THEN "blocks" ELSE "tool_failed"
    /\ UNCHANGED <<old_zip, new_zip, common_archives, old_file_blocks,
                   new_file_blocks>>

\* Lines 308-309.
GetFileBlocks ==
    /\ ppc = "blocks"
    /\ old_file_blocks' = get_file_blocks(old_zip, common_archives)
    /\ new_file_blocks' = get_file_blocks(new_zip, common_archives)
    /\ ppc' = "assert"
    /\ UNCHANGED <<old_zip, new_zip, common_archives>>

\* Line 315: assert (len(old_file_blocks) == len(new_file_blocks)).
AssertAligned ==
    /\ ppc = "assert"
    /\ ppc' = IF blocks_aligned(old_file_blocks, new_file_blocks)
              THEN "aligned" ELSE "unaligned"
    /\ UNCHANGED <<old_zip, new_zip, common_archives, old_file_blocks,
                   new_file_blocks>>

----------------------------------------------------------------------------
(* apk_patch_size_estimator.py: the file system and the external tools.    *)
(* A file's content is a tuple: <<"file", x>> for an input, <<tool, ...>>  *)
(* for the output of a tool, <<"partial">> for what a failed or unfinished *)
(* writer leaves, <<>> for no file.                                        *)

NoFile == <<>>
Partial == <<"partial">>

diff_name_in_order == <<"None", "BSDIFF", "File-By-File">>
compression_name_in_order == <<"None", "GZIP", "BROTLI">>
diff_extension == <<"", ".bsdiff", ".fbf">>
compression_extension == <<"", ".gz", ".br">>

TempDir == "tmp/"
\* os.path.join(temp_path, name)
TempJoin(name) == TempDir \o name

new_file_copy == TempJoin("new_apk.diff")
bsdiff_patch_path == TempJoin("patch.bsdiff")
raw_bsdiff_path == TempJoin("patch.raw_bsdiff")
bzipped_bsdiff_path == raw_bsdiff_path \o ".bz2"
bsdiff_header_path == TempJoin("patch.raw_bsdiff_header")
rebuilt_bsdiff_path == raw_bsdiff_path \o ".rebuilt"
filebyfile_patch_path == TempJoin(".filebyfile")

DeltaPaths == {new_file_copy, rebuilt_bsdiff_path, filebyfile_patch_path}
CompressedSuffixes == {".copy", ".gz", ".br"}
CompressedPaths == {d \o x : d \in DeltaPaths, x \in CompressedSuffixes}
TempPaths ==
    DeltaPaths \cup CompressedPaths
      \cup {bsdiff_patch_path, raw_bsdiff_path, bzipped_bsdiff_path,
            bsdiff_header_path}

SavePrefix == "out/p"
SavePaths ==
    {SavePrefix \o diff_extension[d] \o compression_extension[c] :
        d \in 1..3, c \in 1..3}
InputPaths == {"in/old.apk", "in/new.apk"}
AllPaths == TempPaths \cup SavePaths \cup InputPaths

Exists(f, path) == f[path] # NoFile

\* def cleanup(*files): remove the files that exist.
cleanup(f, paths) == [q \in DOMAIN f |-> IF q \in paths THEN NoFile ELSE f[q]]

\* How a command can end: exit 0; non-zero exit with nothing written;
\* non-zero exit with its output file partly written.
Outcomes == {"ok", "fail", "fail_partial"}

\* A run_command that ignores the exit code.
run_command_never_raises(out) == FALSE

\* def run_command: raise when ret_code != 0.
run_command_raises(out) == out # "ok"

\* cp src dst as the command ends with `out`; exit 0 needs an existing source
\* that is not the destination itself.
CpCanSucceed(f, src, dst) == Exists(f, src) /\ src # dst
cp(f, src, dst, out) ==
    CASE out = "ok" -> [f EXCEPT ![dst] = f[src]]
      [] out = "fail" -> f
      [] out = "fail_partial" ->
           IF src = dst THEN f ELSE [f EXCEPT ![dst] = Partial]

\* A command whose stdout main has opened for writing at path dst: the open
\* creates (or truncates) dst, the command fills it when it exits 0.
redirected(f, dst, content, out) ==
    [f EXCEPT ![dst] = IF out = "ok" THEN content ELSE Partial]

\* A command that writes dst itself.
writes(f, dst, content, out) ==
    CASE out = "ok" -> [f EXCEPT ![dst] = content]
      [] out = "fail" -> f
      [] out = "fail_partial" -> [f EXCEPT ![dst] = Partial]

\* brotli that removes its input once compressed (as gzip does on a file).
brotli_output_rm(f, patch_path, out) ==
    IF out = "ok"
    THEN [f EXCEPT ![patch_path \o ".br"] = <<"br", f[patch_path]>>,
                   ![patch_path] = NoFile]
    ELSE writes(f, patch_path \o ".br", NoFile, out)

\* brotli -9 patch_path: writes patch_path.br and keeps patch_path.
brotli_output(f, patch_path, out) ==
    writes(f, patch_path \o ".br", <<"br", f[patch_path]>>, out)

\* The file no_diff copies.
no_diff_source_old == args.old_file
no_diff_source == args.new_file

----------------------------------------------------------------------------
(* apk_patch_size_estimator.py: main. *)

MainArgs ==
    [old_file : {"in/old.apk", new_file_copy},
     new_file : {"in/new.apk", new_file_copy},
     save_patch : {"", SavePrefix},
     temp_is_dir : BOOLEAN]

\* The file system a run can start from: each input present or not, and
\* possibly a compressed artifact left in the temp directory by an earlier
\* run that failed.
InitialFs(a, old_there, new_there, stale) ==
    [q \in AllPaths |->
        IF q = a.new_file /\ new_there THEN <<"file", "NEW">>
        ELSE IF q = a.old_file /\ old_there THEN <<"file", "OLD">>
        ELSE IF q = new_file_copy \o ".br" /\ stale THEN <<"file", "STALE">>
        ELSE NoFile]

MainInit ==
    /\ args \in MainArgs
    /\ \E old_there, new_there, stale \in BOOLEAN :
          fs = InitialFs(args, old_there, new_there, stale)
    /\ fs0 = fs
    /\ mpc = "validate"
    /\ diff_i = 1
    /\ comp_j = 0
    /\ delta_path = ""
    /\ compressed_path = ""
    /\ row = <<>>
    /\ printed = <<>>
    /\ delta_content = NoFile
    /\ delta_count = [d \in 1..3 |-> 0]
    /\ cmdlog = <<>>
    /\ failed_at = <<>>

MainIdle ==
    /\ args = [old_file |-> "in/old.apk", new_file |-> "in/new.apk",
               save_patch |-> "", temp_is_dir |-> TRUE]
    /\ fs = [q \in AllPaths |-> NoFile]
    /\ fs0 = fs
    /\ mpc = "idle"
    /\ diff_i = 1
    /\ comp_j = 0
    /\ delta_path = ""
    /\ compressed_path = ""
    /\ row = <<>>
    /\ printed = <<>>
    /\ delta_content = NoFile
    /\ delta_count = [d \in 1..3 |-> 0]
    /\ cmdlog = <<>>
    /\ failed_at = <<>>

\* An uncaught exception ends main.
Raise(step) ==
    /\ mpc' = "failed"
    /\ failed_at' = <<diff_i, comp_j, step>>

Log(tool, out) ==
    cmdlog' = Append(cmdlog, [cell |-> <<diff_i, comp_j>>, tool |-> tool,
                              out |-> out])

\* After a command that ended with `out`: raise, or go on at `next`.
Ran(tool, out, next) ==
    /\ Log(tool, out)
    /\ IF run_command_raises(out) THEN Raise(tool)
       ELSE mpc' = next /\ UNCHANGED failed_at

\* Lines 295-308: check_exists(old_file, new_file), the temp directory must
\* be a directory, find_bins_or_die (a binary may be missing).
Validate ==
    /\ mpc = "validate"
    /\ \E bins_found \in BOOLEAN :
          IF Exists(fs, args.old_file) /\ Exists(fs, args.new_file)
             /\ args.temp_is_dir /\ bins_found
          THEN mpc' = "diff" /\ UNCHANGED failed_at
          ELSE Raise("validate")
    /\ UNCHANGED <<args, fs, diff_i, comp_j, delta_path, compressed_path, row,
                   printed, fs0, delta_content, delta_count, cmdlog>>

\* The strategy of row diff_i returned path: line 325 and the start of the
\* loop over the compressions.
Returned(path, f) ==
    /\ delta_path' = path
    /\ delta_content' = f[path]
    /\ comp_j' = 1

\* Line 325 with diff = no_diff (lines 254-260): check_exists(new_file),
\* cp new_file new_file_copy, check_exists(new_file_copy).
NoDiff ==
    /\ mpc = "diff" /\ diff_name_in_order[diff_i] = "None"
    /\ delta_count' = [delta_count EXCEPT ![diff_i] = @ + 1]
    /\ IF ~Exists(fs, args.new_file)
       THEN /\ Raise("check_exists")
            /\ UNCHANGED <<fs, cmdlog, delta_path, delta_content, comp_j>>
       ELSE \E out \in Outcomes :
              /\ out = "ok" => CpCanSucceed(fs, no_diff_source, new_file_copy)
              /\ fs' = cp(fs, no_diff_source, new_file_copy, out)
              /\ Log("cp", out)
              /\ IF run_command_raises(out)
                 THEN /\ Raise("cp")
                      /\ UNCHANGED <<delta_path, delta_content, comp_j>>
                 ELSE IF ~Exists(fs', new_file_copy)
                 THEN /\ Raise("check_exists")
                      /\ UNCHANGED <<delta_path, delta_content, comp_j>>
                 ELSE /\ mpc' = "compress" /\ UNCHANGED failed_at
                      /\ Returned(new_file_copy, fs')
    /\ UNCHANGED <<args, diff_i, compressed_path, row, printed, fs0>>

\* bsdiff, lines 153-157: cleanup of the three intermediate files, then
\* bsdiff old_file new_file bsdiff_patch_path.
BsdiffRun ==
    /\ mpc = "diff" /\ diff_name_in_order[diff_i] = "BSDIFF"
    /\ delta_count' = [delta_count EXCEPT ![diff_i] = @ + 1]
    /\ \E out \in Outcomes :
          /\ out = "ok" => Exists(fs, args.old_file) /\ Exists(fs, args.new_file)
          /\ fs' = writes(cleanup(fs, {raw_bsdiff_path, bzipped_bsdiff_path,
                                       bsdiff_header_path}),
                          bsdiff_patch_path,
                          <<"bsdiff", fs[args.old_file], fs[args.new_file]>>,
                          out)
          /\ Ran("bsdiff", out, "bsdiff_head")
    /\ UNCHANGED <<args, diff_i, comp_j, delta_path, compressed_path, row,
                   printed, fs0, delta_content>>

\* bsdiff, lines 160-165: head -c 32 bsdiff_patch_path > bsdiff_header_path.
BsdiffHead ==
    /\ mpc = "bsdiff_head"
    /\ \E out \in Outcomes :
          /\ out = "ok" => Exists(fs, bsdiff_patch_path)
          /\ fs' = redirected(fs, bsdiff_header_path,
                              <<"head32", fs[bsdiff_patch_path]>>, out)
          /\ Ran("head", out, "bsdiff_tail")
    /\ UNCHANGED <<args, diff_i, comp_j, delta_path, compressed_path, row,
                   printed, fs0, delta_content, delta_count>>

\* bsdiff, lines 168-173: tail -c +33 bsdiff_patch_path > bzipped_bsdiff_path.
BsdiffTail ==
    /\ mpc = "bsdiff_tail"
    /\ \E out \in Outcomes :
          /\ out = "ok" => Exists(fs, bsdiff_patch_path)
          /\ fs' = redirected(fs, bzipped_bsdiff_path,
                              <<"tail33", fs[bsdiff_patch_path]>>, out)
          /\ Ran("tail", out, "bsdiff_bunzip2")
    /\ UNCHANGED <<args, diff_i, comp_j, delta_path, compressed_path, row,
                   printed, fs0, delta_content, delta_count>>

\* bsdiff, line 174: bunzip2 -d -q bzipped_bsdiff_path, which on success
\* replaces the .bz2 file by raw_bsdiff_path.
BsdiffBunzip2 ==
    /\ mpc = "bsdiff_bunzip2"
    /\ \E out \in Outcomes :
          /\ out = "ok" => Exists(fs, bzipped_bsdiff_path)
          /\ fs' = IF out = "ok"
                   THEN [fs EXCEPT ![raw_bsdiff_path] =
                                       <<"bunzip2", fs[bzipped_bsdiff_path]>>,
                                   ![bzipped_bsdiff_path] = NoFile]
                   ELSE writes(fs, raw_bsdiff_path, NoFile, out)
          /\ Ran("bunzip2", out, "bsdiff_cat")
    /\ UNCHANGED <<args, diff_i, comp_j, delta_path, compressed_path, row,
                   printed, fs0, delta_content, delta_count>>

\* bsdiff, lines 177-189: cat header raw > rebuilt, cleanup of the three
\* intermediate files, return rebuilt_bsdiff_path.
BsdiffCat ==
    /\ mpc = "bsdiff_cat"
    /\ \E out \in Outcomes :
          /\ out = "ok" => Exists(fs, bsdiff_header_path)
                             /\ Exists(fs, raw_bsdiff_path)
          /\ Log("cat", out)
          /\ LET after_cat == redirected(fs, rebuilt_bsdiff_path,
                               <<"cat", fs[bsdiff_header_path],
                                 fs[raw_bsdiff_path]>>, out)
             IN IF run_command_raises(out)
                THEN /\ fs' = after_cat
                     /\ Raise("cat")
                     /\ UNCHANGED <<delta_path, delta_content, comp_j>>
                ELSE /\ fs' = cleanup(after_cat, {raw_bsdiff_path,
                                 bsdiff_header_path, bzipped_bsdiff_path})
                     /\ mpc' = "compress" /\ UNCHANGED failed_at
                     /\ Returned(rebuilt_bsdiff_path, fs')
    /\ UNCHANGED <<args, diff_i, compressed_path, row, printed, fs0,
                   delta_count>>

\* Line 325 with diff = filebyfile (lines 208-217): cleanup of the patch
\* path, then the file-by-file generator.
FileByFile ==
    /\ mpc = "diff" /\ diff_name_in_order[diff_i] = "File-By-File"
    /\ delta_count' = [delta_count EXCEPT ![diff_i] = @ + 1]
    /\ \E out \in Outcomes :
          /\ out = "ok" => Exists(fs, args.old_file) /\ Exists(fs, args.new_file)
          /\ fs' = writes(cleanup(fs, {filebyfile_patch_path}),
                          filebyfile_patch_path,
                          <<"fbf", fs[args.old_file], fs[args.new_file]>>, out)
          /\ Log("java", out)
          /\ IF run_command_raises(out)
             THEN /\ Raise("java")
                  /\ UNCHANGED <<delta_path, delta_content, comp_j>>
             ELSE /\ mpc' = "compress" /\ UNCHANGED failed_at
                  /\ Returned(filebyfile_patch_path, fs')
    /\ UNCHANGED <<args, diff_i, compressed_path, row, printed, fs0>>

\* Line 328 with compress = no_compress (lines 263-268).
NoCompress ==
    /\ mpc = "compress" /\ compression_name_in_order[comp_j] = "None"
    /\ IF ~Exists(fs, delta_path)
       THEN Raise("check_exists") /\ UNCHANGED <<fs, cmdlog, compressed_path>>
       ELSE \E out \in Outcomes :
              /\ fs' = cp(fs, delta_path, delta_path \o ".copy", out)
              /\ compressed_path' =
                    IF run_command_raises(out) THEN compressed_path
                    ELSE delta_path \o ".copy"
              /\ Ran("cp", out, "get_size")
    /\ UNCHANGED <<args, diff_i, comp_j, delta_path, row, printed, fs0,
                   delta_content, delta_count>>

\* Line 328 with compress = gzip (lines 220-237): gzip -9 < patch > patch.gz.
Gzip ==
    /\ mpc = "compress" /\ compression_name_in_order[comp_j] = "GZIP"
    /\ IF ~Exists(fs, delta_path)
       THEN Raise("check_exists") /\ UNCHANGED <<fs, cmdlog, compressed_path>>
       ELSE \E out \in Outcomes :
              /\ fs' = redirected(fs, delta_path \o ".gz",
                                  <<"gz", fs[delta_path]>>, out)
              /\ compressed_path' =
                    IF run_command_raises(out) THEN compressed_path
                    ELSE delta_path \o ".gz"
              /\ Ran("gzip", out, "get_size")
    /\ UNCHANGED <<args, diff_i, comp_j, delta_path, row, printed, fs0,
                   delta_content, delta_count>>

\* Line 328 with compress = brotli (lines 240-244); brotli does not
\* overwrite an existing output file.
Brotli ==
    /\ mpc = "compress" /\ compression_name_in_order[comp_j] = "BROTLI"
    /\ IF ~Exists(fs, delta_path)
       THEN Raise("check_exists") /\ UNCHANGED <<fs, cmdlog, compressed_path>>
       ELSE \E out \in Outcomes :
              /\ out = "ok" => ~Exists(fs, delta_path \o ".br")
              /\ out = "fail_partial" => ~Exists(fs, delta_path \o ".br")
              /\ fs' = brotli_output(fs, delta_path, out)
              /\ compressed_path' =
                    IF run_command_raises(out) THEN compressed_path
                    ELSE delta_path \o ".br"
              /\ Ran("brotli", out, "get_size")
    /\ UNCHANGED <<args, diff_i, comp_j, delta_path, row, printed, fs0,
                   delta_content, delta_count>>

\* Lines 329-330: get_size(compressed_path) (check_exists, then stat) and
\* the size appended to the row.
GetSize ==
    /\ mpc = "get_size"
    /\ IF ~Exists(fs, compressed_path)
       THEN Raise("check_exists") /\ UNCHANGED row
       ELSE /\ row' = Append(row, fs[compressed_path])
            /\ mpc' = "save" /\ UNCHANGED failed_at
    /\ UNCHANGED <<args, fs, diff_i, comp_j, delta_path, compressed_path,
                   printed, fs0, delta_content, delta_count, cmdlog>>

\* The copy of lines 333-337 is made for this cell.
Saves ==
    /\ args.save_patch # ""
    /\ ~(diff_name_in_order[diff_i] = "None"
           /\ compression_name_in_order[comp_j] = "None")

\* A save path that leaves out the extension of the compression.
save_target_diff_only == args.save_patch \o diff_extension[diff_i]

SaveTarget ==
    args.save_patch \o diff_extension[diff_i] \o compression_extension[comp_j]

\* Lines 333-337.
Save ==
    /\ mpc = "save"
    /\ IF Saves
       THEN \E out \in Outcomes :
              /\ out = "ok" => CpCanSucceed(fs, compressed_path, SaveTarget)
              /\ fs' = cp(fs, compressed_path, SaveTarget, out)
              /\ Ran("cp_save", out, "cleanup_compressed")
       ELSE /\ mpc' = "cleanup_compressed"
            /\ UNCHANGED <<fs, cmdlog, failed_at>>
    /\ UNCHANGED <<args, diff_i, comp_j, delta_path, compressed_path, row,
                   printed, fs0, delta_content, delta_count>>

\* Line 338 and the next iteration of the loop of line 326.
CleanupCompressed ==
    /\ mpc = "cleanup_compressed"
    /\ fs' = cleanup(fs, {compressed_path})
    /\ IF comp_j < Len(compression_name_in_order)
       THEN comp_j' = comp_j + 1 /\ mpc' = "compress"
       ELSE comp_j' = comp_j /\ mpc' = "cleanup_delta"
    /\ UNCHANGED <<args, diff_i, delta_path, compressed_path, row, printed,
                   fs0, delta_content, delta_count, cmdlog, failed_at>>

\* Lines 339-340 and the next iteration of the loop of line 322.
CleanupDelta ==
    /\ mpc = "cleanup_delta"
    /\ fs' = cleanup(fs, {delta_path})
    /\ printed' = Append(printed, [diff |-> diff_name_in_order[diff_i],
                                   sizes |-> row])
    /\ row' = <<>>
    /\ comp_j' = 0
    /\ IF diff_i < Len(diff_name_in_order)
       THEN diff_i' = diff_i + 1 /\ mpc' = "diff"
       ELSE diff_i' = diff_i /\ mpc' = "done"
    /\ UNCHANGED <<args, delta_path, compressed_path, fs0, delta_content,
                   delta_count, cmdlog, failed_at>>

----------------------------------------------------------------------------
(* bsdiff, byte by byte. A file is the sequence of its bytes. The binary    *)
(* diff tool writes a 32-byte header and then its blocks, each compressed   *)
(* on its own: the body is a concatenation of compressed streams, which     *)
(* bunzip2 decompresses one after the other into one output.                *)

\* What bzip2 writes for the data d: one stream, here a 2-byte magic, the
\* length and the bytes of d shifted by 100.
bzip2(d) == <<66, 90, Len(d)>> \o [i \in 1..Len(d) |-> d[i] + 100]

\* What bunzip2 leaves of an input that is no sequence of streams.
Corrupt == <<-1>>

\* bunzip2 -d: the data of the streams of b, in order.
RECURSIVE bunzip2(_)
bunzip2(b) ==
    IF b = <<>> THEN <<>>
    ELSE IF Len(b) < 3 \/ b[1] # 66 \/ b[2] # 90 \/ Len(b) < 3 + b[3]
    THEN Corrupt
    ELSE LET rest == bunzip2(SubSeq(b, 4 + b[3], Len(b)))
         IN IF rest = Corrupt THEN Corrupt
            ELSE [i \in 1..b[3] |-> b[3 + i] - 100] \o rest

\* head -c 31
head_c_31(b) == SubSeq(b, 1, IF Len(b) < 31 THEN Len(b) ELSE 31)

\* head -c 32
head_c_32(b) == SubSeq(b, 1, IF Len(b) < 32 THEN Len(b) ELSE 32)

\* tail -c +33
tail_c_33(b) == SubSeq(b, 33, Len(b))

\* The blocks a binary diff is made of, and its two headers: the magic
\* BSDIFF40 followed by 24 bytes of lengths.
BlockData == {<<>>, <<1>>, <<2, 3>>}
BsdiffHeaders ==
    { <<66, 83, 68, 73, 70, 70, 52, 48>> \o Filler(24, b) : b \in {0, 9} }

RECURSIVE ConcatAll(_)
ConcatAll(ss) == IF ss = <<>> THEN <<>> ELSE Head(ss) \o ConcatAll(Tail(ss))

\* The outputs of the binary diff tool: a header, then one to MaxStreams
\* compressed streams; and one output whose body is no compressed stream.
BsdiffOutputs ==
    { h \o ConcatAll([k \in DOMAIN blocks |-> bzip2(blocks[k])]) :
        h \in BsdiffHeaders,
        blocks \in SeqsUpTo(BlockData, MaxStreams) \ {<<>>} }
      \cup { h \o <<7, 7, 7>> : h \in BsdiffHeaders }

BsInit ==
    /\ bsdiff_patch \in BsdiffOutputs
    /\ bsdiff_header = <<>>
    /\ bzipped_bsdiff_patch = <<>>
    /\ raw_bsdiff = <<>>
    /\ rebuilt_bsdiff = <<>>
    /\ bspc = "head"

BsIdle ==
    /\ bsdiff_patch = <<>>
    /\ bsdiff_header = <<>>
    /\ bzipped_bsdiff_patch = <<>>
    /\ raw_bsdiff = <<>>
    /\ rebuilt_bsdiff = <<>>
    /\ bspc = "idle"

\* head -c 32 bsdiff_patch_path > bsdiff_header_path; run_command raises
\* when head exits non-zero.
HeadHeader ==
    /\ bspc = "head"
    /\ \E ok \in BOOLEAN :
          IF ok THEN /\ bsdiff_header' = head_c_32(bsdiff_patch)
                     /\ bspc' = "tail"
          ELSE /\ bspc' = "raised"
               /\ UNCHANGED bsdiff_header
    /\ UNCHANGED <<bsdiff_patch, bzipped_bsdiff_patch, raw_bsdiff,
                   rebuilt_bsdiff>>

\* tail -c +33 bsdiff_patch_path > bzipped_bsdiff_path
TailBody ==
    /\ bspc = "tail"
    /\ \E ok \in BOOLEAN :
          IF ok THEN /\ bzipped_bsdiff_patch' = tail_c_33(bsdiff_patch)
                     /\ bspc' = "bunzip2"
          ELSE /\ bspc' = "raised"
               /\ UNCHANGED bzipped_bsdiff_patch
    /\ UNCHANGED <<bsdiff_patch, bsdiff_header, raw_bsdiff, rebuilt_bsdiff>>

\* bunzip2 -d -q bzipped_bsdiff_path: writes raw_bsdiff_path and removes the
\* .bz2 file, or exits non-zero on an input it cannot decompress.
Bunzip2Body ==
    /\ bspc = "bunzip2"
    /\ IF bunzip2(bzipped_bsdiff_patch) = Corrupt
       THEN /\ bspc' = "raised"
            /\ UNCHANGED <<raw_bsdiff, bzipped_bsdiff_patch>>
       ELSE /\ raw_bsdiff' = bunzip2(bzipped_bsdiff_patch)
            /\ bzipped_bsdiff_patch' = <<>>
            /\ bspc' = "cat"
    /\ UNCHANGED <<bsdiff_patch, bsdiff_header, rebuilt_bsdiff>>

\* cat bsdiff_header_path raw_bsdiff_path > rebuilt_bsdiff_path, and the
\* return of rebuilt_bsdiff_path.
CatRebuilt ==
    /\ bspc = "cat"
    /\ \E ok \in BOOLEAN :
          IF ok THEN /\ rebuilt_bsdiff' = bsdiff_header \o raw_bsdiff
                     /\ bspc' = "returned"
          ELSE /\ bspc' = "raised"
               /\ UNCHANGED rebuilt_bsdiff
    /\ UNCHANGED <<bsdiff_patch, bsdiff_header, bzipped_bsdiff_patch,
                   raw_bsdiff>>

----------------------------------------------------------------------------
(* delta.py and utils.py: the file system of compute_delta. A path is the  *)
(* pair <<directory, file name>>; `files` maps the paths of the files that *)
(* exist to their content, a sequence of chunks: an archive is one chunk   *)
(* <<"zip", origin, entry names>>, an extracted member one chunk           *)
(* <<"member", origin, name>>, the output of a generator one chunk         *)
(* <<tool, old content, new content>>; cat concatenates.                   *)

old_file == <<"in", "old.apk">>
new_file == <<"in", "new.apk">>
temp_path == "tmp"

Archive(origin, names) == << <<"zip", origin, names>> >>
EntriesOf(content) == content[1][3]
OriginOf(content) == content[1][2]
Member(origin, name) == << <<"member", origin, name>> >>
Generated(tool, old_content, new_content) ==
    << <<tool, old_content, new_content>> >>

\* os.path.exists on a file
path_exists(f, path) == path \in DOMAIN f

\* A command or an open(path, 'w') writes content at path.
write_file(f, path, content) ==
    [q \in DOMAIN f \cup {path} |-> IF q = path THEN content ELSE f[q]]

\* utils.cleanup(*files): remove the files that exist.
utils_cleanup(f, paths) == [q \in DOMAIN f \ paths |-> f[q]]

\* shutil.rmtree(dir), as far as files go.
rmtree(f, dir) == [q \in {q \in DOMAIN f : q[1] # dir} |-> f[q]]

\* utils.copy(file): the first file + ".copy" + str(n) that does not exist.
copy_path(f, path) ==
    LET candidate(n) == <<path[1], path[2] \o ".copy" \o ToString(n)>>
        n == CHOOSE n \in 0..Cardinality(DOMAIN f) :
                /\ ~path_exists(f, candidate(n))
                /\ \A m \in 0..(n - 1) : path_exists(f, candidate(m))
    IN candidate(n)

\* The file system after utils.copy(file) (cp exits 0).
copy(f, path) == write_file(f, copy_path(f, path), f[path])

\* The name attribute of the registered algorithms (get_delta_algorithms).
Algorithms ==
    {"Identity", "BSDIFF", "File-By-File-V1", "File-By-File-V2-w-Reorder",
     "File-By-File-V2", "File-By-File-V2-wo-Reorder"}

\* compute_delta, line 47: new_temp_path = os.path.join(temp_path, self.name)
new_temp_path(name) == temp_path \o "/" \o name

\* The directory compute_delta hands to delta_method (line 50).
delta_method_temp_path(name) == temp_path

\* Archives that list no name twice.
ArchivesUpTo(n) == {z \in SeqsUpTo(Names, n) : NoDuplicates(z)}

\* The file system a call starts from: the new input; the old input unless
\* it is missing; possibly a directory of the algorithm's name with a file
\* in it, left by an earlier call.
DeltaInit ==
    /\ algo \in Algorithms
    /\ \E old_there, stale \in BOOLEAN :
          /\ old_zip \in (IF old_there THEN ArchivesUpTo(MaxEntries)
                          ELSE {<<>>})
          /\ new_zip \in (IF old_there THEN ArchivesUpTo(MaxEntries)
                          ELSE {<<>>})
          /\ files =
               [q \in {new_file}
                      \cup (IF old_there THEN {old_file} ELSE {})
                      \cup (IF stale THEN {<<new_temp_path(algo), "stale">>}
                            ELSE {}) |->
                   IF q = old_file THEN Archive("OLD", old_zip)
                   ELSE IF q = new_file THEN Archive("NEW", new_zip)
                   ELSE Member("STALE", <<>>)]
          /\ dirs = {"in", temp_path}
                      \cup (IF stale THEN {new_temp_path(algo)} ELSE {})
    /\ files0 = files
    /\ dpc = "compute_delta"
    /\ ppc = "idle"
    /\ common_archives = <<>>
    /\ old_file_blocks = <<>>
    /\ new_file_blocks = <<>>
    /\ gen_i = 0
    /\ patch_paths = <<>>
    /\ to_walk = {}
    /\ returned_path = <<>>
    /\ written = {}
    /\ tool_failed = FALSE

DeltaIdle ==
    /\ algo = ""
    /\ files = <<>>
    /\ dirs = {}
    /\ files0 = files
    /\ dpc = "idle"
    /\ gen_i = 0
    /\ patch_paths = <<>>
    /\ to_walk = {}
    /\ returned_path = <<>>
    /\ written = {}
    /\ tool_failed = FALSE

\* compute_delta (lines 45-50): check_exists(old_file, new_file, temp_path),
\* create_temp_dir(new_temp_path) (remove_dir_if_exist, then os.mkdir), and
\* the call of delta_method.
ComputeDelta ==
    /\ dpc = "compute_delta"
    /\ IF path_exists(files, old_file) /\ path_exists(files, new_file)
          /\ temp_path \in dirs
       THEN /\ files' = rmtree(files, new_temp_path(algo))
            /\ dirs' = dirs \cup {new_temp_path(algo)}
            /\ dpc' = "delta_method"
            /\ ppc' = IF algo = "File-By-File-V2-wo-Reorder" THEN "start"
                      ELSE ppc
       ELSE /\ dpc' = "raised"
            /\ UNCHANGED <<files, dirs, ppc>>
    /\ UNCHANGED <<algo, gen_i, patch_paths, to_walk, returned_path, files0,
                   written, tool_failed, old_zip, new_zip, common_archives,
                   old_file_blocks, new_file_blocks>>

\* The directory delta_method works in.
work_dir == delta_method_temp_path(algo)

\* A strategy returns path.
Return(path) ==
    /\ returned_path' = path
    /\ dpc' = "returned"

\* run_command raised on a non-zero exit code.
ToolFailed ==
    /\ dpc' = "raised"
    /\ tool_failed' = TRUE

\* no_diff (lines 340-346): check_exists(new_file), cp, check_exists.
DeltaNoDiff ==
    /\ dpc = "delta_method" /\ algo = "Identity"
    /\ LET new_file_path == <<work_dir, "new_apk.diff">>
       IN \E ok \in BOOLEAN :
            IF ok
            THEN /\ files' = write_file(files, new_file_path, files[new_file])
                 /\ written' = written \cup {new_file_path}
                 /\ Return(new_file_path)
                 /\ UNCHANGED tool_failed
            ELSE /\ ToolFailed
                 /\ UNCHANGED <<files, written, returned_path>>
    /\ UNCHANGED <<dirs, algo, gen_i, patch_paths, to_walk, files0,
                   part_vars>>

\* bsdiff (lines 53-111) in one step: the binary diff, head, tail, bunzip2
\* and cat, none of the intermediate files being removed; bunzip2 has
\* replaced the .bz2 file.
DeltaBsdiff ==
    /\ dpc = "delta_method" /\ algo = "BSDIFF"
    /\ LET patch == <<work_dir, "patch.bsdiff">>
           header == <<work_dir, "patch.raw_bsdiff_header">>
           raw == <<work_dir, "patch.raw_bsdiff">>
           rebuilt == <<work_dir, "patch.raw_bsdiff.rebuilt">>
           diff == Generated("bsdiff", files[old_file], files[new_file])
       IN \E ok \in BOOLEAN :
            IF ok
            THEN /\ files' =
                      write_file(
                        write_file(
                          write_file(
                            write_file(files, patch, diff),
                            header, Generated("head", diff, <<>>)),
                          raw, Generated("bunzip2", diff, <<>>)),
                        rebuilt, Generated("rebuilt", diff, <<>>))
                 /\ written' = written \cup {patch, header, raw, rebuilt}
                 /\ Return(rebuilt)
                 /\ UNCHANGED tool_failed
            ELSE /\ ToolFailed
                 /\ UNCHANGED <<files, written, returned_path>>
    /\ UNCHANGED <<dirs, algo, gen_i, patch_paths, to_walk, files0,
                   part_vars>>

\* The path filebyfile writes its patch at (line 130).
filebyfile_patch(dir) == <<dir, "patch.filebyfile">>

\* The file system after filebyfile(old, new, temp_path) (lines 128-140):
\* cleanup of the patch path, then the generator (exit 0).
filebyfile(f, old, new, dir) ==
    write_file(utils_cleanup(f, {filebyfile_patch(dir)}),
               filebyfile_patch(dir), Generated("fbf", f[old], f[new]))

\* delta_method = filebyfile.
DeltaFileByFile ==
    /\ dpc = "delta_method" /\ algo = "File-By-File-V1"
    /\ \E ok \in BOOLEAN :
          IF ok
          THEN /\ files' = filebyfile(files, old_file, new_file, work_dir)
               /\ written' = written \cup {filebyfile_patch(work_dir)}
               /\ Return(filebyfile_patch(work_dir))
               /\ UNCHANGED tool_failed
          ELSE /\ files' = utils_cleanup(files, {filebyfile_patch(work_dir)})
               /\ ToolFailed
               /\ UNCHANGED <<written, returned_path>>
    /\ UNCHANGED <<dirs, algo, gen_i, patch_paths, to_walk, files0,
                   part_vars>>

\* delta_method = filebyfilev2 (lines 156-168): the generator with --v2.
DeltaFileByFileV2 ==
    /\ dpc = "delta_method" /\ algo = "File-By-File-V2"
    /\ LET patch == <<work_dir, "patch.filebyfilev2">>
       IN \E ok \in BOOLEAN :
            IF ok
            THEN /\ files' = write_file(files, patch,
                                Generated("fbfv2", files[old_file],
                                          files[new_file]))
                 /\ written' = written \cup {patch}
                 /\ Return(patch)
                 /\ UNCHANGED tool_failed
            ELSE /\ ToolFailed
                 /\ UNCHANGED <<files, written, returned_path>>
    /\ UNCHANGED <<dirs, algo, gen_i, patch_paths, to_walk, files0,
                   part_vars>>

\* A filename as the string of its characters.
RECURSIVE Str(_)
Str(name) == IF name = <<>> THEN "" ELSE Head(name) \o Str(Tail(name))

\* zip -d archive name, on the entry names of the archive.
zip_d(names, name) == SelectSeq(names, LAMBDA n : n # name)

RECURSIVE zip_d_all(_, _)
zip_d_all(names, to_delete) ==
    IF to_delete = <<>> THEN names
    ELSE zip_d_all(zip_d(names, Head(to_delete)), Tail(to_delete))

\* strip_embedded_files that deletes nothing from the copy.
strip_nothing(f, path, entries_to_strip) == copy(f, path)

\* The file system after strip_embedded_files(file, entries_to_strip) (lines
\* 195-199); the copy it returns is copy_path(f, path).
strip_embedded_files(f, path, entries_to_strip) ==
    write_file(f, copy_path(f, path),
               Archive(OriginOf(f[path]),
                       zip_d_all(EntriesOf(f[path]), entries_to_strip)))

\* unzip archive entry -d dir, the archive being of the given origin.
unzip(f, origin, entry, dir) ==
    write_file(f, <<dir, Str(entry)>>, Member(origin, entry))

\* cat paths > out: the contents one after the other; without operands cat
\* copies its standard input.
cat(f, paths) ==
    IF paths = <<>> THEN Generated("stdin", <<>>, <<>>)
    ELSE ConcatAll([k \in DOMAIN paths |-> f[paths[k]]])

\* A walk that yields the numbered sub-archives of dir only.
numbered_files_in(f, dir) ==
    {q \in DOMAIN f :
        q[1] = dir /\ \E i \in 0..MaxEntries : q[2] = ToString(i) \o ".apk"}

\* The files os.walk(dir) yields.
FilesIn(f, dir) == {q \in DOMAIN f : q[1] = dir}

embedded_old == temp_path \o "/embedded_old"
embedded_new == temp_path \o "/embedded_new"

\* filebyfilev2_estimate, lines 213-215, with filebyfilev2_stripped (lines
\* 203-208): the common archives, the two stripped copies, their patch.
EstimateStripped ==
    /\ dpc = "delta_method" /\ algo = "File-By-File-V2-w-Reorder"
    /\ common_archives' = find_common_embedded_archives(old_zip, new_zip)
    /\ LET stripped_apk_old == copy_path(files, old_file)
           stripped_old ==
               strip_embedded_files(files, old_file, common_archives')
           stripped_apk_new == copy_path(stripped_old, new_file)
           stripped_new ==
               strip_embedded_files(stripped_old, new_file, common_archives')
       IN \E ok \in BOOLEAN :
            IF ok
            THEN /\ files' = filebyfile(stripped_new, stripped_apk_old,
                                        stripped_apk_new, work_dir)
                 /\ written' = written \cup {stripped_apk_old,
                                  stripped_apk_new, filebyfile_patch(work_dir)}
                 /\ dpc' = "estimate_extract"
                 /\ UNCHANGED tool_failed
            ELSE /\ files' = stripped_old
                 /\ written' = written \cup {stripped_apk_old}
                 /\ ToolFailed
    /\ UNCHANGED <<dirs, algo, gen_i, patch_paths, to_walk, returned_path,
                   files0, old_zip, new_zip, ppc, old_file_blocks,
                   new_file_blocks>>

\* The loop of lines 220-224 (and of lines 302-306, on copies).
RECURSIVE unzip_common(_, _, _, _)
unzip_common(f, commons, dir_old, dir_new) ==
    IF commons = <<>> THEN f
    ELSE unzip_common(
           unzip(unzip(f, "OLD", Head(commons), dir_old),
                 "NEW", Head(commons), dir_new),
           Tail(commons), dir_old, dir_new)

\* filebyfilev2_estimate, lines 217-226: mkdir -p of the two directories,
\* unzip of every common archive out of the two inputs, the copy of the
\* stripped patch; os.walk is about to list embedded_old.
EstimateExtract ==
    /\ dpc = "estimate_extract"
    /\ \E ok \in BOOLEAN :
          IF ok
          THEN LET unzipped == unzip_common(files, common_archives,
                                            embedded_old, embedded_new)
                   stripped_copy ==
                       copy_path(unzipped, filebyfile_patch(work_dir))
               IN /\ files' = copy(unzipped, filebyfile_patch(work_dir))
                  /\ dirs' = dirs \cup {embedded_old, embedded_new}
                  /\ patch_paths' = <<stripped_copy>>
                  /\ to_walk' = FilesIn(unzipped, embedded_old)
                  /\ written' = written \cup {stripped_copy}
                        \cup FilesIn(unzipped, embedded_old)
                        \cup FilesIn(unzipped, embedded_new)
                  /\ dpc' = "estimate_walk"
                  /\ UNCHANGED tool_failed
          ELSE /\ dirs' = dirs \cup {embedded_old, embedded_new}
               /\ ToolFailed
               /\ UNCHANGED <<files, patch_paths, to_walk, written>>
    /\ UNCHANGED <<algo, gen_i, returned_path, files0, part_vars>>

\* One iteration of a loop over os.walk(dir_old) (lines 228-236 and
\* 322-329): the file of the same name under dir_new must exist; filebyfile
\* of the two; the copy of the patch is appended to patch_paths. os.walk
\* yields the files in no particular order.
WalkPatch(dir_new) ==
    \E old_file_path \in to_walk :
      LET new_file_path == <<dir_new, old_file_path[2]>>
      IN IF ~path_exists(files, new_file_path)
         THEN /\ dpc' = "raised"
              /\ UNCHANGED <<files, patch_paths, to_walk, written,
                             tool_failed>>
         ELSE \E ok \in BOOLEAN :
               IF ok
               THEN LET patched == filebyfile(files, old_file_path,
                                              new_file_path, work_dir)
                        patch_copy ==
                            copy_path(patched, filebyfile_patch(work_dir))
                    IN /\ files' = copy(patched, filebyfile_patch(work_dir))
                       /\ patch_paths' = Append(patch_paths, patch_copy)
                       /\ to_walk' = to_walk \ {old_file_path}
                       /\ written' = written \cup
                             {filebyfile_patch(work_dir), patch_copy}
                       /\ UNCHANGED <<dpc, tool_failed>>
               ELSE /\ ToolFailed
                    /\ UNCHANGED <<files, patch_paths, to_walk, written>>

EstimateWalk ==
    /\ dpc = "estimate_walk"
    /\ WalkPatch(embedded_new)
    /\ UNCHANGED <<dirs, algo, gen_i, returned_path, files0, part_vars>>

\* filebyfilev2_estimate, lines 238-248: cat of the patches, cleanup of the
\* copies, rmtree of the two directories.
EstimateCat ==
    /\ dpc = "estimate_walk" /\ to_walk = {}
    /\ LET final_patch_path == <<work_dir, "patch.filebyfilev2.estimate.final">>
       IN \E ok \in BOOLEAN :
            IF ok
            THEN /\ files' =
                      rmtree(rmtree(
                        utils_cleanup(
                          write_file(files, final_patch_path,
                                     cat(files, patch_paths)),
                          Range(patch_paths)),
                        embedded_new), embedded_old)
                 /\ dirs' = dirs \ {embedded_old, embedded_new}
                 /\ written' = written \cup {final_patch_path}
                 /\ Return(final_patch_path)
                 /\ UNCHANGED tool_failed
            ELSE /\ files' = write_file(files, final_patch_path, <<>>)
                 /\ written' = written \cup {final_patch_path}
                 /\ ToolFailed
                 /\ UNCHANGED <<dirs, returned_path>>
    /\ UNCHANGED <<algo, gen_i, patch_paths, to_walk, files0, part_vars>>

sub_apk_old == temp_path \o "/sub_apk_old"
sub_apk_new == temp_path \o "/sub_apk_new"

\* The copies of the two inputs made by the loop of lines 302-306.
RECURSIVE copy_each(_, _)
copy_each(f, commons) ==
    IF commons = <<>> THEN f
    ELSE copy_each(copy(copy(f, old_file), new_file), Tail(commons))

\* filebyfilev2_noreorder, lines 300-306: mkdir -p of the two directories,
\* then unzip of every common archive out of a copy of each input.
NoReorderExtract ==
    /\ dpc = "delta_method"
    /\ ExtractCommon
    /\ dirs' = dirs \cup {sub_apk_old, sub_apk_new}
    /\ IF ppc' = "blocks"
       THEN /\ files' = unzip_common(copy_each(files, common_archives),
                                     common_archives, sub_apk_old, sub_apk_new)
            /\ written' = written \cup (DOMAIN files' \ DOMAIN files)
            /\ UNCHANGED <<dpc, tool_failed>>
       ELSE /\ ToolFailed
            /\ UNCHANGED <<files, written>>
    /\ UNCHANGED <<algo, gen_i, patch_paths, to_walk, returned_path, files0>>

\* filebyfilev2_noreorder, line 253, as the first step of the strategy.
NoReorderFindCommon ==
    /\ dpc = "delta_method" /\ algo = "File-By-File-V2-wo-Reorder"
    /\ FindCommon
    /\ UNCHANGED delta_vars

\* filebyfilev2_noreorder, lines 308-309.
NoReorderGetFileBlocks ==
    /\ dpc = "delta_method"
    /\ GetFileBlocks
    /\ UNCHANGED delta_vars

\* filebyfilev2_noreorder, line 315: the AssertionError ends the strategy.
NoReorderAssert ==
    /\ dpc = "delta_method"
    /\ AssertAligned
    /\ dpc' = IF ppc' = "unaligned" THEN "raised" ELSE dpc
    /\ UNCHANGED <<files, dirs, algo, gen_i, patch_paths, to_walk,
                   returned_path, files0, written, tool_failed>>

\* flatten([file_blocks[j] for j in range(0, len(file_blocks)) if j != i]),
\* i counting from 0 (lines 287-288).
all_files_to_delete(file_blocks, i) ==
    Flatten([j \in 1..(Len(file_blocks) - 1) |->
                file_blocks[IF j <= i THEN j ELSE j + 1]])

\* The path of sub-archive i in tmp_dir (lines 292-294).
sub_apk(tmp_dir, i) == <<tmp_dir, ToString(i) \o ".apk">>

\* The file system after iteration i of the loop of generate_sub_apks (lines
\* 285-294): the stripped copy, the files of the other blocks deleted from
\* it, the result copied to tmp_dir/i.apk.
generate_sub_apk(f, file_blocks, zip_file, tmp_dir, i) ==
    LET new_archive == copy_path(f, zip_file)
        stripped == strip_embedded_files(f, zip_file, common_archives)
        deleted ==
            write_file(stripped, new_archive,
                Archive(OriginOf(f[zip_file]),
                        zip_d_all(EntriesOf(stripped[new_archive]),
                                  all_files_to_delete(file_blocks, i))))
    IN write_file(deleted, sub_apk(tmp_dir, i), deleted[new_archive])

\* One iteration of the loop of generate_sub_apks for the archive zip_file.
GenerateSubApk(file_blocks, zip_file, tmp_dir) ==
    /\ gen_i < Len(file_blocks)
    /\ \E ok \in BOOLEAN :
          IF ok
          THEN /\ files' = generate_sub_apk(files, file_blocks, zip_file,
                                            tmp_dir, gen_i)
               /\ written' = written \cup (DOMAIN files' \ DOMAIN files)
               /\ gen_i' = gen_i + 1
               /\ UNCHANGED <<dpc, tool_failed, ppc>>
          ELSE /\ files' = copy(files, zip_file)
               /\ written' = written \cup (DOMAIN files' \ DOMAIN files)
               /\ ToolFailed
               /\ ppc' = "tool_failed"
               /\ UNCHANGED gen_i
    /\ UNCHANGED <<dirs, algo, patch_paths, to_walk, returned_path, files0,
                   old_zip, new_zip, common_archives, old_file_blocks,
                   new_file_blocks>>

\* Line 317: generate_sub_apks(old_file_blocks, old_file, tmp_dir_old).
GenerateSubApksOld ==
    /\ dpc = "delta_method" /\ ppc = "aligned"
    /\ GenerateSubApk(old_file_blocks, old_file, sub_apk_old)

\* The loop of line 317 has ended; line 318 is next.
GenerateSubApksOldDone ==
    /\ dpc = "delta_method" /\ ppc = "aligned"
    /\ gen_i = Len(old_file_blocks)
    /\ gen_i' = 0
    /\ ppc' = "generate_new"
    /\ UNCHANGED <<files, dirs, algo, dpc, patch_paths, to_walk,
                   returned_path, files0, written, tool_failed, old_zip,
                   new_zip, common_archives, old_file_blocks, new_file_blocks>>

\* Line 318: generate_sub_apks(new_file_blocks, new_file, tmp_dir_new).
GenerateSubApksNew ==
    /\ dpc = "delta_method" /\ ppc = "generate_new"
    /\ GenerateSubApk(new_file_blocks, new_file, sub_apk_new)

\* The loop of line 318 has ended; patch_paths = [] (line 320) and os.walk
\* is about to list tmp_dir_old (line 322).
GenerateSubApksNewDone ==
    /\ dpc = "delta_method" /\ ppc = "generate_new"
    /\ gen_i = Len(new_file_blocks)
    /\ patch_paths' = <<>>
    /\ to_walk' = FilesIn(files, sub_apk_old)
    /\ ppc' = "walk"
    /\ UNCHANGED <<files, dirs, algo, dpc, gen_i, returned_path, files0,
                   written, tool_failed, old_zip, new_zip, common_archives,
                   old_file_blocks, new_file_blocks>>

\* One iteration of the loop of lines 322-329.
NoReorderWalk ==
    /\ dpc = "delta_method" /\ ppc = "walk"
    /\ WalkPatch(sub_apk_new)
    /\ ppc' = IF dpc' = "raised" THEN "tool_failed" ELSE ppc
    /\ UNCHANGED <<dirs, algo, gen_i, returned_path, files0, old_zip,
                   new_zip, common_archives, old_file_blocks,
                   new_file_blocks>>

\* Lines 331-337: cat of the patches into the final patch, returned.
NoReorderCat ==
    /\ dpc = "delta_method" /\ ppc = "walk" /\ to_walk = {}
    /\ LET final_patch_path ==
               <<work_dir, "patch.filebyfilev2.noreorder.final">>
       IN \E ok \in BOOLEAN :
            IF ok
            THEN /\ files' = write_file(files, final_patch_path,
                                        cat(files, patch_paths))
                 /\ Return(final_patch_path)
                 /\ ppc' = "done"
                 /\ UNCHANGED tool_failed
            ELSE /\ files' = write_file(files, final_patch_path, <<>>)
                 /\ ToolFailed
                 /\ ppc' = "tool_failed"
                 /\ UNCHANGED returned_path
    /\ written' = written \cup {<<work_dir, "patch.filebyfilev2.noreorder.final">>}
    /\ UNCHANGED <<dirs, algo, gen_i, patch_paths, to_walk, files0, old_zip,
                   new_zip, common_archives, old_file_blocks,
                   new_file_blocks>>

----------------------------------------------------------------------------
(* Specifications. *)

vars == <<le_vars, zip_vars, part_vars, main_vars, bs_vars, delta_vars>>

\* The round trip of zip.py, lines 26-28, over a range of integers.
LESpecInit == LEInit /\ ZipIdle /\ PartIdle /\ MainIdle /\ BsIdle /\ DeltaIdle
LENext ==
    \/ Encode /\ UNCHANGED <<zip_vars, part_vars, main_vars, bs_vars, delta_vars>>
    \/ Decode /\ UNCHANGED <<zip_vars, part_vars, main_vars, bs_vars, delta_vars>>
SpecLE == LESpecInit /\ [][LENext]_vars

\* Zip(filename).get_entries() over the generated buffers.
ZipSpecInit == ZipInit /\ LEIdle /\ PartIdle /\ MainIdle /\ BsIdle /\ DeltaIdle
ZipNext ==
    \/ ScanStart /\ UNCHANGED <<le_vars, part_vars, main_vars, bs_vars, delta_vars>>
    \/ ScanBack /\ UNCHANGED <<le_vars, part_vars, main_vars, bs_vars, delta_vars>>
    \/ GetCentralDirOffset /\ UNCHANGED <<le_vars, part_vars, main_vars, bs_vars, delta_vars>>
    \/ AssertFirstHeader /\ UNCHANGED <<le_vars, part_vars, main_vars, bs_vars, delta_vars>>
    \/ ReadEntry /\ UNCHANGED <<le_vars, part_vars, main_vars, bs_vars, delta_vars>>
    \/ ReturnEntries /\ UNCHANGED <<le_vars, part_vars, main_vars, bs_vars, delta_vars>>
SpecZip == ZipSpecInit /\ [][ZipNext]_vars

\* find_common_embedded_archives on pairs of archives.
DetectSpecInit == DetectInit /\ LEIdle /\ ZipIdle /\ MainIdle /\ BsIdle
    /\ DeltaIdle
DetectNext == Detect /\ UNCHANGED <<le_vars, zip_vars, main_vars, bs_vars, delta_vars>>
SpecDetect == DetectSpecInit /\ [][DetectNext]_vars

\* filebyfilev2_noreorder up to its check of the block counts.
PartSpecInit == PartInit /\ LEIdle /\ ZipIdle /\ MainIdle /\ BsIdle /\ DeltaIdle
PartNext ==
    \/ FindCommon /\ UNCHANGED <<le_vars, zip_vars, main_vars, bs_vars, delta_vars>>
    \/ ExtractCommon /\ UNCHANGED <<le_vars, zip_vars, main_vars, bs_vars, delta_vars>>
    \/ GetFileBlocks /\ UNCHANGED <<le_vars, zip_vars, main_vars, bs_vars, delta_vars>>
    \/ AssertAligned /\ UNCHANGED <<le_vars, zip_vars, main_vars, bs_vars, delta_vars>>
SpecPart == PartSpecInit /\ [][PartNext]_vars

\* main of apk_patch_size_estimator.py.
MainSpecInit == MainInit /\ LEIdle /\ ZipIdle /\ PartIdle /\ BsIdle /\ DeltaIdle
MainNext ==
    \/ Validate /\ UNCHANGED <<le_vars, zip_vars, part_vars, bs_vars, delta_vars>>
    \/ NoDiff /\ UNCHANGED <<le_vars, zip_vars, part_vars, bs_vars, delta_vars>>
    \/ BsdiffRun /\ UNCHANGED <<le_vars, zip_vars, part_vars, bs_vars, delta_vars>>
    \/ BsdiffHead /\ UNCHANGED <<le_vars, zip_vars, part_vars, bs_vars, delta_vars>>
    \/ BsdiffTail /\ UNCHANGED <<le_vars, zip_vars, part_vars, bs_vars, delta_vars>>
    \/ BsdiffBunzip2 /\ UNCHANGED <<le_vars, zip_vars, part_vars, bs_vars, delta_vars>>
    \/ BsdiffCat /\ UNCHANGED <<le_vars, zip_vars, part_vars, bs_vars, delta_vars>>
    \/ FileByFile /\ UNCHANGED <<le_vars, zip_vars, part_vars, bs_vars, delta_vars>>
    \/ NoCompress /\ UNCHANGED <<le_vars, zip_vars, part_vars, bs_vars, delta_vars>>
    \/ Gzip /\ UNCHANGED <<le_vars, zip_vars, part_vars, bs_vars, delta_vars>>
    \/ Brotli /\ UNCHANGED <<le_vars, zip_vars, part_vars, bs_vars, delta_vars>>
    \/ GetSize /\ UNCHANGED <<le_vars, zip_vars, part_vars, bs_vars, delta_vars>>
    \/ Save /\ UNCHANGED <<le_vars, zip_vars, part_vars, bs_vars, delta_vars>>
    \/ CleanupCompressed /\ UNCHANGED <<le_vars, zip_vars, part_vars, bs_vars, delta_vars>>
    \/ CleanupDelta /\ UNCHANGED <<le_vars, zip_vars, part_vars, bs_vars, delta_vars>>
SpecMain == MainSpecInit /\ [][MainNext]_vars

\* bsdiff from the output of the binary diff tool to the rebuilt artifact.
BsSpecInit == BsInit /\ LEIdle /\ ZipIdle /\ PartIdle /\ MainIdle /\ DeltaIdle
BsNext ==
    \/ HeadHeader /\ UNCHANGED <<le_vars, zip_vars, part_vars, main_vars, delta_vars>>
    \/ TailBody /\ UNCHANGED <<le_vars, zip_vars, part_vars, main_vars, delta_vars>>
    \/ Bunzip2Body /\ UNCHANGED <<le_vars, zip_vars, part_vars, main_vars, delta_vars>>
    \/ CatRebuilt /\ UNCHANGED <<le_vars, zip_vars, part_vars, main_vars, delta_vars>>
SpecBsdiff == BsSpecInit /\ [][BsNext]_vars

DeltaSpecInit == DeltaInit /\ LEIdle /\ ZipIdle /\ MainIdle /\ BsIdle
DeltaNext ==
    \/ ComputeDelta /\ UNCHANGED <<le_vars, zip_vars, main_vars, bs_vars>>
    \/ DeltaNoDiff /\ UNCHANGED <<le_vars, zip_vars, main_vars, bs_vars>>
    \/ DeltaBsdiff /\ UNCHANGED <<le_vars, zip_vars, main_vars, bs_vars>>
    \/ DeltaFileByFile /\ UNCHANGED <<le_vars, zip_vars, main_vars, bs_vars>>
    \/ DeltaFileByFileV2 /\ UNCHANGED <<le_vars, zip_vars, main_vars, bs_vars>>
    \/ EstimateStripped /\ UNCHANGED <<le_vars, zip_vars, main_vars, bs_vars>>
    \/ EstimateExtract /\ UNCHANGED <<le_vars, zip_vars, main_vars, bs_vars>>
    \/ EstimateWalk /\ UNCHANGED <<le_vars, zip_vars, main_vars, bs_vars>>
    \/ EstimateCat /\ UNCHANGED <<le_vars, zip_vars, main_vars, bs_vars>>
    \/ NoReorderFindCommon
         /\ UNCHANGED <<le_vars, zip_vars, main_vars, bs_vars>>
    \/ NoReorderExtract /\ UNCHANGED <<le_vars, zip_vars, main_vars, bs_vars>>
    \/ NoReorderGetFileBlocks
         /\ UNCHANGED <<le_vars, zip_vars, main_vars, bs_vars>>
    \/ NoReorderAssert /\ UNCHANGED <<le_vars, zip_vars, main_vars, bs_vars>>
    \/ GenerateSubApksOld
         /\ UNCHANGED <<le_vars, zip_vars, main_vars, bs_vars>>
    \/ GenerateSubApksOldDone
         /\ UNCHANGED <<le_vars, zip_vars, main_vars, bs_vars>>
    \/ GenerateSubApksNew
         /\ UNCHANGED <<le_vars, zip_vars, main_vars, bs_vars>>
    \/ GenerateSubApksNewDone
         /\ UNCHANGED <<le_vars, zip_vars, main_vars, bs_vars>>
    \/ NoReorderWalk /\ UNCHANGED <<le_vars, zip_vars, main_vars, bs_vars>>
    \/ NoReorderCat /\ UNCHANGED <<le_vars, zip_vars, main_vars, bs_vars>>
SpecDelta == DeltaSpecInit /\ [][DeltaNext]_vars

----------------------------------------------------------------------------
(* Claims about zip.py. *)

\* C5: for every non-negative integer x (0 included),
\* little_endian_rev(little_endian(x)) = x.
C5_RoundTrip == le_pc = "done" => le_num = le_x

\* A three-byte value has been encoded and decoded.
C5_Witness == le_pc = "done" /\ le_x = 65536 /\ Len(le_s) = 3

\* The buffer holds the End-Of-Central-Directory signature somewhere.
HasEocdSig(buf) ==
    \E i \in 0..(Len(buf) - 4) :
        PySlice(buf, i, i + 4) = LEFixed(END_OF_CENTRAL_DIRECTORY_SIG, 4)

\* C3: on a buffer with no End-Of-Central-Directory signature, reading the
\* directory never returns an entry list (it ends in a failure). Stated in its
\* weakest form: the AssertionError of get_entries counts as the failure, and
\* the offset get_central_dir_offset hands to get_entries is not counted as a
\* returned result.
C3_NoEocdNeverReturns == ~HasEocdSig(buffer) => zpc # "returned"

\* The buffers of well-formed archives: the directory is followed by one
\* End-Of-Central-Directory record that points at it, and the archive comment
\* does not hold the signature; every record declares the lengths of the
\* bytes that follow its header.
WellFormedZip ==
    /\ zin.tail \in {"eocd", "eocd_comment"}
    /\ zin.overrun = "none"

ExpectedEntries ==
    [k \in 1..Len(zin.recs) |->
        [filename |-> zin.recs[k].name, offset |-> zin.recs[k].offset]]

RecordSize(r) == 46 + Len(r.name) + r.extra + r.comment

RECURSIVE ExpectedPosition(_)
ExpectedPosition(k) ==
    IF k = 1 THEN Len(MkPrefix(zin.prefix))
    ELSE ExpectedPosition(k - 1) + RecordSize(zin.recs[k - 1])

\* What get_entries owes a well-formed buffer: no assertion failure; every
\* record read starts with the header signature, at 46 + the three lengths
\* after the record before it; on return one entry per record, in order, with
\* the record's filename and offset, the loop having stopped on a position
\* that does not hold the header signature.
ReadsDirectory ==
    /\ zpc # "assertion_error"
    /\ \A k \in 1..Len(positions) :
          /\ k <= Len(zin.recs)
          /\ positions[k] = ExpectedPosition(k)
          /\ read_int(buffer, positions[k], 4) = CENTRAL_FILE_HEADER
          /\ entries[k] = ExpectedEntries[k]
    /\ zpc = "returned" =>
          /\ entries = ExpectedEntries
          /\ Len(positions) = Len(zin.recs)
          /\ read_int(buffer, pos, 4) # CENTRAL_FILE_HEADER

\* C4 as stated: for every well-formed ZIP buffer get_entries returns one entry
\* per central-file-header record (name, offset, order, record stride, stop at
\* the first non-header signature).
C4_EveryWellFormed == WellFormedZip => ReadsDirectory

\* C4 as amended: the same for well-formed buffers that hold at least one
\* central-file-header record.
C4_NonEmptyWellFormed == (WellFormedZip /\ zin.recs # <<>>) => ReadsDirectory

\* A well-formed buffer of two records, one with an extra field and one with a
\* comment, has been read to the end.
C4_Witness ==
    /\ WellFormedZip
    /\ zpc = "returned"
    /\ Len(entries) = 2
    /\ zin.recs[1].extra > 0
    /\ zin.recs[2].comment > 0
    /\ zin.prefix = "data"

\* The last record of the buffer declares a filename, extra-field or comment
\* length that runs past the end of the buffer.
RunsPastEnd ==
    /\ zin.recs # <<>>
    /\ zin.overrun # "none"
    /\ ExpectedPosition(Len(zin.recs)) + 46 + 200 > Len(buffer)

\* C19: when the declared lengths of a record run past the end of the buffer,
\* get_entries fails: it never returns an entry list. Stated in its weakest
\* form: any failure counts, the AssertionError of get_entries included.
C19_OverrunNeverReturns == RunsPastEnd => zpc # "returned"

\* get_entries has returned an entry list whose last entry was built from a
\* record that runs past the end of the buffer, the End-Of-Central-Directory
\* record having been found.
C19_ReturnedTruncated ==
    /\ RunsPastEnd
    /\ zin.tail = "eocd"
    /\ zpc = "returned"
    /\ Len(entries) = Len(zin.recs)
    /\ pos > Len(buffer)

----------------------------------------------------------------------------
(* Claims about delta.py: detector and partitioner. *)

IsBoundary(name) == name \in Range(common_archives)

NonBoundary(zip_file) == SelectSeq(zip_file, LAMBDA n : ~IsBoundary(n))

\* The blocks partition the non-boundary entries of the archive: flattened
\* they are exactly those entries, each once and in directory order; no
\* boundary name is in a block; no block is empty.
IsPartition(blocks, zip_file) ==
    /\ Flatten(blocks) = NonBoundary(zip_file)
    /\ \A b \in DOMAIN blocks :
          /\ blocks[b] # <<>>
          /\ \A k \in DOMAIN blocks[b] : ~IsBoundary(blocks[b][k])

BlocksComputed == ppc \in {"assert", "aligned", "unaligned"}

\* C1: get_file_blocks returns blocks in which every non-boundary entry
\* appears exactly once, in its original relative order, with no boundary name
\* in any block and no empty block.
C1_BlocksPartition ==
    BlocksComputed =>
        /\ IsPartition(old_file_blocks, old_zip)
        /\ IsPartition(new_file_blocks, new_zip)

\* Archives that list no name twice: the old one, with a boundary entry
\* between two other entries, has been split in two blocks; the new one, with
\* the boundary entry first, makes one block of two entries.
C1_Witness ==
    /\ BlocksComputed
    /\ NoDuplicates(old_zip) /\ NoDuplicates(new_zip)
    /\ Len(old_zip) = 3
    /\ ~IsBoundary(old_zip[1]) /\ IsBoundary(old_zip[2]) /\ ~IsBoundary(old_zip[3])
    /\ Len(old_file_blocks) = 2
    /\ Len(new_zip) = 3
    /\ IsBoundary(new_zip[1])
    /\ new_file_blocks = << <<new_zip[2], new_zip[3]>> >>

\* The positions of the boundary entries of an archive.
BoundaryPositions(zip_file) ==
    {i \in DOMAIN zip_file : IsBoundary(zip_file[i])}

SameBoundaries == BoundaryPositions(old_zip) = BoundaryPositions(new_zip)

Checked == ppc \in {"aligned", "unaligned"}

\* C2 as stated, for archives that list no name twice: when the boundary
\* entries are identical in count and position the two partitions have the
\* same number of blocks; in every other case the block-count check fails.
C2_AlignedIffSameBoundaries ==
    (Checked /\ NoDuplicates(old_zip) /\ NoDuplicates(new_zip)) =>
        IF SameBoundaries
        THEN Len(old_file_blocks) = Len(new_file_blocks)
        ELSE ppc = "unaligned"

\* The two halves of C2 on their own.
C2_FirstHalf ==
    (Checked /\ NoDuplicates(old_zip) /\ NoDuplicates(new_zip)
       /\ SameBoundaries) => Len(old_file_blocks) = Len(new_file_blocks)
C2_SecondHalf ==
    (Checked /\ NoDuplicates(old_zip) /\ NoDuplicates(new_zip)
       /\ ~SameBoundaries) => ppc = "unaligned"

\* C2 as amended: the block-count check fails exactly when the two partitions
\* differ in their number of blocks; when the two archives have the same
\* number of entries and their boundary entries are identical in count and
\* position, the partitions have the same number of blocks and the check
\* passes.
C2_UnalignedIffCountsDiffer ==
    Checked =>
        /\ ppc = "unaligned" <=> Len(old_file_blocks) # Len(new_file_blocks)
        /\ (SameBoundaries /\ Len(old_zip) = Len(new_zip)) =>
              /\ Len(old_file_blocks) = Len(new_file_blocks)
              /\ ppc = "aligned"

\* Two archives of equal length with the same boundary positions passed the
\* check with two blocks each.
C2_Witness ==
    /\ ppc = "aligned"
    /\ SameBoundaries
    /\ BoundaryPositions(old_zip) = {2}
    /\ Len(old_zip) = 3 /\ Len(new_zip) = 3
    /\ Len(old_file_blocks) = 2
    /\ old_zip # new_zip

\* The check failed on partitions of different block counts.
C2_WitnessUnaligned ==
    /\ ppc = "unaligned"
    /\ Len(old_file_blocks) = 1
    /\ Len(new_file_blocks) = 2

\* C10: find_common_embedded_archives returns the set of the archive-like
\* names that occur in both archives: every such name, no other name, each
\* name once.
C10_CommonIsSet ==
    ppc = "detected" =>
        /\ Range(common_archives) =
              {n \in Range(old_zip) \cap Range(new_zip) : is_archive(n)}
        /\ NoDuplicates(common_archives)

\* s without its leading boundary entries.
RECURSIVE DropLeadingBoundaries(_)
DropLeadingBoundaries(s) ==
    IF s # <<>> /\ IsBoundary(Head(s)) THEN DropLeadingBoundaries(Tail(s))
    ELSE s

IsPrefix(p, s) == Len(p) <= Len(s) /\ SubSeq(s, 1, Len(p)) = p

\* The entry sequence s is the blocks concatenated in order with boundary
\* entries (one or more) reinserted between every two consecutive blocks.
RECURSIVE Rejoins(_, _)
Rejoins(blocks, s) ==
    IF blocks = <<>> THEN s = <<>>
    ELSE /\ IsPrefix(Head(blocks), s)
         /\ LET rest == SubSeq(s, Len(Head(blocks)) + 1, Len(s))
            IN IF Len(blocks) = 1 THEN rest = <<>>
               ELSE /\ rest # <<>>
                    /\ IsBoundary(Head(rest))
                    /\ Rejoins(Tail(blocks), DropLeadingBoundaries(rest))

\* s without its leading and its trailing boundary entries.
RECURSIVE Reverse(_)
Reverse(s) == IF s = <<>> THEN <<>> ELSE Append(Reverse(Tail(s)), Head(s))
TrimBoundaries(s) ==
    Reverse(DropLeadingBoundaries(Reverse(DropLeadingBoundaries(s))))

----------------------------------------------------------------------------
(* Claims about main of apk_patch_size_estimator.py. *)

\* main is in the loop over the compressions of strategy diff_i, or about to
\* remove the strategy's delta artifact.
InPasses ==
    mpc \in {"compress", "get_size", "save", "cleanup_compressed",
             "cleanup_delta"}

\* C6: each strategy's delta artifact is computed once, before any
\* compression of the strategy; it exists with the content the strategy
\* returned throughout the compression passes; it changes only by being
\* deleted, after the third (last) pass has recorded its size.
C6_DeltaSurvivesPasses ==
    /\ [](/\ \A d \in 1..3 : delta_count[d] <= 1
          /\ InPasses => /\ delta_count[diff_i] = 1
                         /\ Exists(fs, delta_path)
                         /\ fs[delta_path] = delta_content
          /\ mpc = "done" => \A d \in 1..3 : delta_count[d] = 1)
    /\ [][(InPasses /\ fs'[delta_path] # fs[delta_path]) =>
             /\ mpc = "cleanup_delta"
             /\ Len(row) = Len(compression_name_in_order)
             /\ fs'[delta_path] = NoFile]_vars

\* The brotli pass of the binary-diff strategy has run and the delta artifact
\* is still there.
C6_Witness ==
    /\ mpc = "get_size"
    /\ diff_name_in_order[diff_i] = "BSDIFF"
    /\ compression_name_in_order[comp_j] = "BROTLI"
    /\ compressed_path = rebuilt_bsdiff_path \o ".br"
    /\ Exists(fs, compressed_path)
    /\ fs[delta_path] = delta_content

RunOver == mpc \in {"done", "failed"}

\* The files of the temp directory that the run created and has not removed.
RunArtifacts == {q \in TempPaths : Exists(fs, q) /\ ~Exists(fs0, q)}

\* C7: when the run ends, by completion or by a failure, every artifact it
\* created in the scratch directory has been removed.
C7_ScratchEmptied == RunOver => RunArtifacts = {}

\* C7 for the runs that complete.
C7_ScratchEmptiedOnCompletion == mpc = "done" => RunArtifacts = {}

\* C8: a failure is not retried and aborts the run: no command is run twice;
\* a command that exited non-zero is the last command run; after a failure
\* main has stopped, nothing is printed for the strategy that failed or for a
\* later one, and no further step is taken.
C8_FailureAborts ==
    /\ [](/\ NoDuplicates(cmdlog)
          /\ \A k \in DOMAIN cmdlog :
                cmdlog[k].out # "ok" =>
                    k = Len(cmdlog) /\ mpc = "failed" /\ failed_at # <<>>
          /\ mpc = "failed" <=> failed_at # <<>>
          /\ failed_at # <<>> =>
                /\ Len(printed) = failed_at[1] - 1
                /\ \A k \in DOMAIN printed :
                      /\ printed[k].diff = diff_name_in_order[k]
                      /\ Len(printed[k].sizes) = 3)
    /\ [][failed_at = <<>>]_vars

\* The gzip pass of the second strategy failed after the first strategy's row
\* was printed.
C8_Witness ==
    /\ mpc = "failed"
    /\ failed_at = <<2, 2, "gzip">>
    /\ Len(printed) = 1
    /\ row # <<>>

\* C9: when no_diff returns, the returned path is not the path of the new
\* input, its content is the content of the new input, and the new input is
\* as it was.
C9_NoDiffCopies ==
    [][(mpc = "diff" /\ diff_name_in_order[diff_i] = "None"
          /\ mpc' = "compress") =>
          /\ delta_path' # args.new_file
          /\ Exists(fs, args.new_file)
          /\ fs'[delta_path'] = fs[args.new_file]
          /\ fs'[args.new_file] = fs[args.new_file]]_vars

\* no_diff has returned a copy while the old input has another content.
C9_Witness ==
    /\ mpc = "compress"
    /\ diff_name_in_order[diff_i] = "None"
    /\ comp_j = 1
    /\ delta_path = new_file_copy
    /\ fs[delta_path] = <<"file", "NEW">>
    /\ fs[args.old_file] = <<"file", "OLD">>

\* C12: throughout a run the old and the new input file have the content
\* they had when the run started: neither is written, truncated or deleted.
C12_InputsUntouched ==
    /\ fs[args.old_file] = fs0[args.old_file]
    /\ fs[args.new_file] = fs0[args.new_file]

\* C12 for the runs whose inputs are not files of the temp directory.
C12_InputsOutsideTempUntouched ==
    (args.old_file \notin TempPaths /\ args.new_file \notin TempPaths) =>
        C12_InputsUntouched

\* The path cell (d, c) of the matrix is saved at.
SavePathOf(d, c) ==
    args.save_patch \o diff_extension[d] \o compression_extension[c]

\* The compressed artifact of cell (d, c) has been copied to the save
\* location: the content whose size was printed is there.
SavedCell(d, c) ==
    /\ Exists(fs, SavePathOf(d, c))
    /\ fs[SavePathOf(d, c)] = printed[d].sizes[c]

\* The compressed artifact of the current cell is about to be deleted, and
\* it is still there with its copy at the save location.
CopiedBeforeDelete ==
    /\ Exists(fs, compressed_path)
    /\ fs[SaveTarget] = fs[compressed_path]

\* C13 as stated: with a save location, the compressed artifact of every
\* (strategy, compression) pair is copied to the save location, before it is
\* deleted.
C13_EveryCellSaved ==
    args.save_patch # "" =>
        /\ mpc = "cleanup_compressed" => CopiedBeforeDelete
        /\ mpc = "done" => \A d \in 1..3 : \A c \in 1..3 : SavedCell(d, c)

\* C13 as amended: the same for every pair but (None, None), whose
\* compressed artifact is not copied: nothing is written at the bare save
\* path.
C13_EveryCellButIdentitySaved ==
    args.save_patch # "" =>
        /\ (mpc = "cleanup_compressed" /\ <<diff_i, comp_j>> # <<1, 1>>) =>
              CopiedBeforeDelete
        /\ fs[SavePathOf(1, 1)] = fs0[SavePathOf(1, 1)]
        /\ mpc = "done" =>
              \A d \in 1..3 : \A c \in 1..3 :
                  <<d, c>> # <<1, 1>> => SavedCell(d, c)

\* A run with a save location has completed; the gzip of the binary diff
\* is at the save location and gone from the temp directory.
C13_Witness ==
    /\ mpc = "done"
    /\ args.save_patch = SavePrefix
    /\ fs[SavePrefix \o ".bsdiff.gz"] = printed[2].sizes[2]
    /\ printed[2].sizes[2][1] = "gz"
    /\ ~Exists(fs, rebuilt_bsdiff_path \o ".gz")

----------------------------------------------------------------------------
(* Claims about bsdiff. *)

\* The artifact is the first 32 bytes of the raw output followed by the
\* decompression of the raw output's bytes 33..end.
HeaderThenDecompressedBody ==
    /\ PySlice(rebuilt_bsdiff, 0, 32) = PySlice(bsdiff_patch, 0, 32)
    /\ bunzip2(PySlice(bsdiff_patch, 32, Len(bsdiff_patch))) # Corrupt
    /\ PySlice(rebuilt_bsdiff, 32, Len(rebuilt_bsdiff)) =
          bunzip2(PySlice(bsdiff_patch, 32, Len(bsdiff_patch)))

\* The first 32 bytes of the artifact followed by its remainder recompressed.
Recompressed ==
    PySlice(rebuilt_bsdiff, 0, 32)
      \o bzip2(PySlice(rebuilt_bsdiff, 32, Len(rebuilt_bsdiff)))

\* The body of the raw output is one stream, as the compressor writes it.
SingleStreamBody ==
    PySlice(bsdiff_patch, 32, Len(bsdiff_patch)) =
        bzip2(bunzip2(PySlice(bsdiff_patch, 32, Len(bsdiff_patch))))

\* C15 as stated: the artifact bsdiff returns is the raw output's first 32
\* bytes followed by the decompression of the rest, and recompressing the
\* artifact's remainder reproduces the raw output.
C15_RecompressReproducesRaw ==
    bspc = "returned" =>
        /\ HeaderThenDecompressedBody
        /\ Recompressed = bsdiff_patch

\* C15 as amended: the artifact is the raw output's first 32 bytes followed
\* by the decompression of the rest; recompressing its remainder gives a
\* body that decompresses to the same data as the raw output's body, and
\* reproduces the raw output when its body is one compressed stream.
C15_HeaderAndDecompressedBody ==
    bspc = "returned" =>
        /\ HeaderThenDecompressedBody
        /\ bunzip2(PySlice(Recompressed, 32, Len(Recompressed))) =
              bunzip2(PySlice(bsdiff_patch, 32, Len(bsdiff_patch)))
        /\ SingleStreamBody => Recompressed = bsdiff_patch

\* bsdiff returned the artifact of a raw output of three streams: 32 header
\* bytes and the data of the three blocks.
C15_Witness ==
    /\ bspc = "returned"
    /\ PySlice(bsdiff_patch, 32, Len(bsdiff_patch)) =
          bzip2(<<1>>) \o bzip2(<<>>) \o bzip2(<<2, 3>>)
    /\ rebuilt_bsdiff = PySlice(bsdiff_patch, 0, 32) \o <<1, 2, 3>>


----------------------------------------------------------------------------
(* Claims about compute_delta and the strategies of delta.py. *)

\* The sub-archives of the blocks file_blocks exist in tmp_dir.
Materialized(file_blocks, tmp_dir) ==
    \A i \in 0..(Len(file_blocks) - 1) :
        path_exists(files, sub_apk(tmp_dir, i))

\* The sub-archive of block i in tmp_dir, when it exists, lists the entries
\* of block i, in their order, and nothing else.
HoldsItsBlock(file_blocks, tmp_dir) ==
    \A i \in 0..(Len(file_blocks) - 1) :
        path_exists(files, sub_apk(tmp_dir, i)) =>
            LET listed == EntriesOf(files[sub_apk(tmp_dir, i)])
            IN /\ listed = file_blocks[i + 1]
               /\ Range(listed) \cap Range(common_archives) = {}
               /\ \A j \in 1..Len(file_blocks) :
                     j # i + 1 =>
                        Range(listed) \cap Range(file_blocks[j]) = {}

\* The two inputs are what they were when compute_delta was called.
SourcesKept ==
    \A path \in {old_file, new_file} :
        path \in DOMAIN files0 =>
            path_exists(files, path) /\ files[path] = files0[path]

\* C11: for archives that list no name twice, the sub-archive materialized
\* for block i lists exactly the entries of block i (no common embedded
\* archive, no entry of another block, every entry of block i), every block
\* has its sub-archive once generate_sub_apks has returned, and the source
\* archives are what they were before.
C11_SubApkHoldsExactlyItsBlock ==
    /\ HoldsItsBlock(old_file_blocks, sub_apk_old)
    /\ HoldsItsBlock(new_file_blocks, sub_apk_new)
    /\ ppc \in {"generate_new", "walk", "done"} =>
          Materialized(old_file_blocks, sub_apk_old)
    /\ ppc \in {"walk", "done"} =>
          Materialized(new_file_blocks, sub_apk_new)
    /\ SourcesKept

\* C11 witness: both archives have been cut into two blocks around a common
\* embedded archive and every sub-archive has been written.
C11_Witness ==
    /\ ppc = "walk"
    /\ common_archives # <<>>
    /\ Len(old_file_blocks) = 2
    /\ Len(new_file_blocks) = 2
    /\ Materialized(old_file_blocks, sub_apk_old)
    /\ Materialized(new_file_blocks, sub_apk_new)


\* No sub-archive of a block exists in tmp_dir.
NoSubApk(tmp_dir) ==
    \A q \in FilesIn(files, tmp_dir) :
        \A i \in 0..MaxEntries : q # sub_apk(tmp_dir, i)

\* C17: in the no-reorder strategy, when the old and the new archive are cut
\* into different numbers of blocks, the strategy has raised at the assert,
\* no sub-archive of a block exists, no patch of a pair has been computed,
\* nothing is returned, and the steps after the assert are never reached.
C17_UnalignedAbortsBeforeAnyWork ==
    Len(old_file_blocks) # Len(new_file_blocks) =>
        /\ ppc \in {"assert", "unaligned"}
        /\ ppc = "unaligned" => dpc = "raised"
        /\ NoSubApk(sub_apk_old)
        /\ NoSubApk(sub_apk_new)
        /\ ~path_exists(files, filebyfile_patch(work_dir))
        /\ patch_paths = <<>>
        /\ returned_path = <<>>

\* C17 witness: the strategy has raised on archives that share an embedded
\* archive and are cut into different numbers of blocks.
C17_Witness ==
    /\ ppc = "unaligned"
    /\ dpc = "raised"
    /\ common_archives # <<>>
    /\ Len(old_file_blocks) # Len(new_file_blocks)


\* The strategy without reorder has returned its artifact.
NoReorderReturned ==
    /\ algo = "File-By-File-V2-wo-Reorder"
    /\ dpc = "returned"

\* The patch filebyfile computes between old sub-archive i and new
\* sub-archive i, i counting from 1.
BlockPatch(i) ==
    <<"fbf", Archive("OLD", old_file_blocks[i]),
             Archive("NEW", new_file_blocks[i])>>

\* The patch filebyfile computes between the two extracted copies of a
\* common embedded archive.
EmbeddedPatch(entry) == <<"fbf", Member("OLD", entry), Member("NEW", entry)>>

BlockPatches == {BlockPatch(i) : i \in 1..Len(old_file_blocks)}
EmbeddedPatches == {EmbeddedPatch(entry) : entry \in Range(common_archives)}

EndedWithoutToolFailure ==
    /\ dpc \in {"returned", "raised"}
    /\ ~tool_failed
    /\ old_file \in DOMAIN files0

\* What plain file-by-file (v1) writes for the two inputs.
PlainFileByFile == Generated("fbf", files0[old_file], files0[new_file])

\* C14: for two archives without a common embedded archive, file-by-file v2
\* with reorder (the stripped patch and the estimate built on it) and
\* file-by-file v2 without reorder return an artifact whose content is the
\* patch plain file-by-file computes for the same pair.
C14_NoCommonArchiveSameAsV1 ==
    ( /\ algo \in {"File-By-File-V2-w-Reorder", "File-By-File-V2-wo-Reorder"}
      /\ find_common_embedded_archives(old_zip, new_zip) = <<>>
      /\ EndedWithoutToolFailure )
    => /\ dpc = "returned"
       /\ files[returned_path] = PlainFileByFile

\* C14, where it fails: without a common embedded archive the strategy
\* without reorder has raised at the assert, one archive being without
\* entries and the other not.
C14_RaisedWithoutCommonArchive ==
    /\ algo = "File-By-File-V2-wo-Reorder"
    /\ find_common_embedded_archives(old_zip, new_zip) = <<>>
    /\ EndedWithoutToolFailure
    /\ dpc = "raised"
    /\ ppc = "unaligned"


\* The scratch directory compute_delta creates for the algorithm, and the
\* directories a strategy makes under the directory it is given.
scratch == new_temp_path(algo)
SubDirectories == {"sub_apk_old", "sub_apk_new", "embedded_old", "embedded_new"}
InScratch(path) ==
    \/ path[1] = scratch
    \/ \E d \in SubDirectories : path[1] = scratch \o "/" \o d

\* compute_delta has called the strategy: check_exists has passed, the two
\* inputs being there.
StrategyCalled ==
    /\ dpc \notin {"idle", "compute_delta"}
    /\ old_file \in DOMAIN files0

\* The scratch directory exists and holds nothing an earlier call left.
ScratchFresh ==
    /\ scratch \in dirs
    /\ \A q \in FilesIn(files, scratch) : q \in written

\* C20: once compute_delta has called the strategy, the directory named
\* after the algorithm exists and holds nothing from before; every file the
\* strategy writes is in that directory; when the strategy has returned or
\* raised, the directory is gone.
C20_OwnScratchCreatedUsedRemoved ==
    StrategyCalled =>
        /\ dpc \notin {"returned", "raised"} => ScratchFresh
        /\ \A q \in written : InScratch(q)
        /\ dpc \in {"returned", "raised"} => scratch \notin dirs

\* C20, the part the code does: the directory named after the algorithm
\* exists and holds nothing from before, from the call of the strategy on.
C20_ScratchCreatedFresh ==
    StrategyCalled => ScratchFresh /\ FilesIn(files, scratch) = {}

\* C20, where it fails: a strategy has returned an artifact that is not in
\* the directory created for it, and that directory still exists, a file
\* having been in it before the call.
C20_ArtifactOutsideScratch ==
    /\ dpc = "returned"
    /\ ~InScratch(returned_path)
    /\ scratch \in dirs
    /\ \E q \in DOMAIN files0 : q[1] = scratch

====
